---------------------------- MODULE Spec2Model ----------------------------
(***************************************************************************)
(* Natural-language search of PictureManagementSystem:                     *)
(*   - the query parser  (src/src/lib/ai/doubao.ts, parseNaturalLanguage)  *)
(*   - the search route  (src/src/app/api/search/nl/route.ts: GET,         *)
(*     buildWhereClause, rankByRelevance, countMatches)                    *)
(*                                                                         *)
(* Strings are TLA+ strings handled character by character (Head, Tail,    *)
(* SubSeq, \o).  Numbers the code keeps as floats with two decimals        *)
(* (confidence, relevance score) are kept in hundredths: 0.45 is 45.       *)
(***************************************************************************)
EXTENDS Integers, Sequences, FiniteSets, TLC

(***************************************************************************)
(* Characters and the JavaScript string built-ins the code uses.           *)
(***************************************************************************)
UpperChars == "ABCDEFGHIJKLMNOPQRSTUVWXYZ"
LowerChars == "abcdefghijklmnopqrstuvwxyz"
DigitChars == "0123456789"

CharAt(s, i) == SubSeq(s, i, i)

CharSet(s) == {CharAt(s, i) : i \in 1..Len(s)}

UpperSet == CharSet(UpperChars)
LowerSet == CharSet(LowerChars)
DigitSet == CharSet(DigitChars)

\* the regular-expression class \s
WhiteSpace == {" ", "\t", "\n"}

\* the regular-expression class \w
WordChars == UpperSet \cup LowerSet \cup DigitSet \cup {"_"}

IsSpace(c) == c \in WhiteSpace
IsWord(c) == c \in WordChars
IsDigit(c) == c \in DigitSet

LowerOf == [c \in UpperSet |->
              CharAt(LowerChars, CHOOSE i \in 1..26 : CharAt(UpperChars, i) = c)]

LowerChar(c) == IF c \in UpperSet THEN LowerOf[c] ELSE c

RECURSIVE ToLowerCase(_)
ToLowerCase(s) ==
    IF s = "" THEN "" ELSE LowerChar(Head(s)) \o ToLowerCase(Tail(s))

RECURSIVE TrimStart(_)
TrimStart(s) ==
    IF s # "" /\ IsSpace(Head(s)) THEN TrimStart(Tail(s)) ELSE s

RECURSIVE TrimEnd(_)
TrimEnd(s) ==
    IF s # "" /\ IsSpace(CharAt(s, Len(s)))
    THEN TrimEnd(SubSeq(s, 1, Len(s) - 1))
    ELSE s

Trim(s) == TrimEnd(TrimStart(s))

\* s.includes(sub)
Includes(s, sub) ==
    \E i \in 1..(Len(s) - Len(sub) + 1) : SubSeq(s, i, i + Len(sub) - 1) = sub

\* s.replace(/[^\w\s]/g, ' ')
RECURSIVE ReplaceNonWord(_)
ReplaceNonWord(s) ==
    IF s = "" THEN ""
    ELSE (IF IsWord(Head(s)) \/ IsSpace(Head(s)) THEN Head(s) ELSE " ")
         \o ReplaceNonWord(Tail(s))

\* s.split(/\s+/): the pieces between maximal runs of whitespace, the empty
\* pieces before a leading run and after a trailing run included
RECURSIVE SplitSpaces(_)
SplitSpaces(s) ==
    IF \A i \in 1..Len(s) : ~IsSpace(CharAt(s, i))
    THEN <<s>>
    ELSE LET i == CHOOSE k \in 1..Len(s) :
                     /\ IsSpace(CharAt(s, k))
                     /\ \A m \in 1..(k - 1) : ~IsSpace(CharAt(s, m))
             rest == SubSeq(s, i, Len(s))
         IN  <<SubSeq(s, 1, i - 1)>> \o SplitSpaces(TrimStart(rest))

Min(a, b) == IF a <= b THEN a ELSE b

\* arr.includes(x)
InSeq(x, seq) == \E i \in 1..Len(seq) : seq[i] = x

(***************************************************************************)
(* The parser's tables.                                                    *)
(***************************************************************************)
STOP_WORDS ==
    {"find", "show", "get", "search", "me", "my", "the", "a", "an", "of", "in",
     "at", "on", "for", "with", "from", "to", "by", "and", "or", "is", "are",
     "was", "were", "been", "have", "has", "had", "do", "does", "did",
     "photos", "photo", "pictures", "picture", "images", "image", "pics", "pic"}

SCENE_KEYWORDS ==
    {"beach", "sea", "ocean", "seaside", "coast", "shore",
     "mountain", "mountains", "hill", "hills", "peak",
     "city", "urban", "downtown", "street", "cityscape",
     "park", "garden", "outdoor", "outside",
     "indoor", "inside", "interior", "room",
     "forest", "woods", "trees", "jungle",
     "sunset", "sunrise", "dawn", "dusk", "twilight",
     "night", "evening", "nighttime",
     "sky", "clouds", "cloudy", "sunny",
     "snow", "winter", "snowy",
     "desert", "sand", "dunes",
     "lake", "river", "water", "waterfall",
     "building", "architecture",
     "landscape", "nature", "scenery"}

OBJECT_KEYWORDS ==
    {"person", "people", "human", "man", "woman", "child", "kid", "baby",
     "dog", "cat", "animal", "pet", "bird", "horse",
     "car", "vehicle", "bike", "bicycle", "motorcycle",
     "tree", "flower", "plant", "rose", "leaf",
     "food", "meal", "dish", "cake", "dessert",
     "building", "house", "home", "bridge",
     "boat", "ship", "plane", "airplane",
     "phone", "camera", "computer", "laptop",
     "book", "chair", "table", "furniture"}

EMOTION_KEYWORDS ==
    {"happy", "joy", "joyful", "cheerful", "glad",
     "sad", "unhappy", "depressed", "gloomy",
     "peaceful", "calm", "serene", "tranquil", "quiet",
     "tense", "nervous", "anxious", "stressed",
     "energetic", "active", "lively", "dynamic",
     "romantic", "love", "lovely",
     "mysterious", "dark", "moody",
     "excited", "exciting", "thrilling",
     "relaxed", "relaxing", "chill"}

SYNONYMS ==
    [seaside |-> "beach", coast |-> "beach", shore |-> "beach",
     sea |-> "ocean", woods |-> "forest", hill |-> "mountain",
     peak |-> "mountain", downtown |-> "city", urban |-> "city",
     cityscape |-> "city", outside |-> "outdoor", inside |-> "indoor",
     interior |-> "indoor", dawn |-> "sunrise", dusk |-> "sunset",
     twilight |-> "sunset", nighttime |-> "night", snowy |-> "snow",
     cloudy |-> "clouds", sunny |-> "sky", human |-> "person",
     man |-> "person", woman |-> "person", kid |-> "child",
     baby |-> "child", pet |-> "animal", bike |-> "bicycle",
     plane |-> "airplane", home |-> "house", meal |-> "food",
     dish |-> "food", dessert |-> "food", joy |-> "happy",
     joyful |-> "happy", cheerful |-> "happy", glad |-> "happy",
     unhappy |-> "sad", gloomy |-> "sad", calm |-> "peaceful",
     serene |-> "peaceful", tranquil |-> "peaceful", quiet |-> "peaceful",
     nervous |-> "tense", anxious |-> "tense", stressed |-> "tense",
     active |-> "energetic", lively |-> "energetic", dynamic |-> "energetic",
     love |-> "romantic", lovely |-> "romantic", dark |-> "mysterious",
     moody |-> "mysterious", exciting |-> "excited", thrilling |-> "excited",
     relaxing |-> "relaxed", chill |-> "relaxed"]

\* month name -> month index, 0-based as in the code
MONTHS ==
    [january |-> 0, jan |-> 0, february |-> 1, feb |-> 1, march |-> 2,
     mar |-> 2, april |-> 3, apr |-> 3, may |-> 4, june |-> 5, jun |-> 5,
     july |-> 6, jul |-> 6, august |-> 7, aug |-> 7, september |-> 8,
     sep |-> 8, sept |-> 8, october |-> 9, oct |-> 9, november |-> 10,
     nov |-> 10, december |-> 11, dec |-> 11]

(***************************************************************************)
(* Dates.  A Date is [day, sec]: the number of days since 1 January of     *)
(* year 0 (proleptic Gregorian calendar, local time) and the second of the *)
(* day.  MakeDay normalises months and days outside their range the way    *)
(* the Date constructor, setDate, setMonth and setFullYear do.             *)
(***************************************************************************)
IsLeap(y) == (y % 4 = 0 /\ y % 100 # 0) \/ y % 400 = 0

DaysBeforeYear(y) ==
    IF y <= 0 THEN 0
    ELSE 365 * y + ((y - 1) \div 4) - ((y - 1) \div 100) + ((y - 1) \div 400) + 1

MonthLengths(y) ==
    <<31, IF IsLeap(y) THEN 29 ELSE 28, 31, 30, 31, 30, 31, 31, 30, 31, 30, 31>>

RECURSIVE DaysBeforeMonth(_, _)
DaysBeforeMonth(y, m) ==
    IF m = 0 THEN 0 ELSE MonthLengths(y)[m] + DaysBeforeMonth(y, m - 1)

\* year, 0-based month (any integer), day of month (any integer)
MakeDay(y, m, d) ==
    LET yy == y + (m \div 12)
        mm == m % 12
    IN  DaysBeforeYear(yy) + DaysBeforeMonth(yy, mm) + (d - 1)

\* new Date(y, m, d, h, mi, s); a year 0..99 means 1900 + year
NewDate(y, m, d, h, mi, s) ==
    [day |-> MakeDay(IF y \in 0..99 THEN 1900 + y ELSE y, m, d),
     sec |-> 3600 * h + 60 * mi + s]

GetFullYear(dt) ==
    CHOOSE y \in (dt.day \div 366)..((dt.day \div 365) + 1) :
        DaysBeforeYear(y) <= dt.day /\ dt.day < DaysBeforeYear(y + 1)

GetMonth(dt) ==
    LET y == GetFullYear(dt)
        r == dt.day - DaysBeforeYear(y)
    IN  CHOOSE m \in 0..11 :
            DaysBeforeMonth(y, m) <= r /\ r < DaysBeforeMonth(y, m + 1)

GetDate(dt) ==
    LET y == GetFullYear(dt)
    IN  dt.day - DaysBeforeYear(y) - DaysBeforeMonth(y, GetMonth(dt)) + 1

\* 0 is Sunday; 1 January of year 0 is a Saturday
GetDay(dt) == (dt.day + 6) % 7

DateLE(a, b) == a.day < b.day \/ (a.day = b.day /\ a.sec <= b.sec)

(***************************************************************************)
(* Regular expressions of the parser, matched by position.                 *)
(***************************************************************************)
\* \b at position i (between characters i-1 and i) before a word character
BoundaryBefore(s, i) == i = 1 \/ ~IsWord(CharAt(s, i - 1))

\* \b after the word character at position i
BoundaryAfter(s, i) == i = Len(s) \/ ~IsWord(CharAt(s, i + 1))

StartsAt(s, i, w) ==
    i + Len(w) - 1 <= Len(s) /\ SubSeq(s, i, i + Len(w) - 1) = w

\* the first position >= i that holds no whitespace (Len(s) + 1 if none)
RECURSIVE SkipSpaces(_, _)
SkipSpaces(s, i) ==
    IF i <= Len(s) /\ IsSpace(CharAt(s, i)) THEN SkipSpaces(s, i + 1) ELSE i

\* the last position of the run of word characters that starts at i
RECURSIVE WordEnd(_, _)
WordEnd(s, i) ==
    IF i < Len(s) /\ IsWord(CharAt(s, i + 1)) THEN WordEnd(s, i + 1) ELSE i

\* positions where (\d{4})\b matches after a \b: /\b(from\s+)?(\d{4})\b/
\* captures the same four digits with and without the optional group
YearPositions(s) ==
    {i \in 1..(Len(s) - 3) :
        /\ \A k \in i..(i + 3) : IsDigit(CharAt(s, k))
        /\ BoundaryBefore(s, i)
        /\ BoundaryAfter(s, i + 3)}

SetMin(S) == CHOOSE x \in S : \A y \in S : x <= y

DigitValue(c) == (CHOOSE i \in 1..10 : CharAt(DigitChars, i) = c) - 1

\* parseInt of a run of digits
RECURSIVE ParseInt(_)
ParseInt(s) ==
    IF s = "" THEN 0
    ELSE 10 * ParseInt(SubSeq(s, 1, Len(s) - 1)) + DigitValue(CharAt(s, Len(s)))

\* the month name that /\b(?:in|from)\s+(january|jan|...)\b/ captures when the
\* match starts at position i, "" when it does not match there
MonthNameAt(s, i) ==
    LET prep == IF StartsAt(s, i, "in") THEN "in"
                ELSE IF StartsAt(s, i, "from") THEN "from" ELSE ""
        sp == i + Len(prep)
        k == SkipSpaces(s, sp)
        name == IF k <= Len(s) /\ IsWord(CharAt(s, k))
                THEN SubSeq(s, k, WordEnd(s, k)) ELSE ""
    IN  IF /\ prep # ""
           /\ BoundaryBefore(s, i)
           /\ k > sp
           /\ name \in DOMAIN MONTHS
        THEN name ELSE ""

MonthPositions(s) == {i \in 1..Len(s) : MonthNameAt(s, i) # ""}

(***************************************************************************)
(* extractDates: <<>> for null, <<[start, end]>> otherwise.  `now` is the  *)
(* value new Date() returns when the function is entered.                  *)
(***************************************************************************)
\* the year branch: "from 2023", "in 2024", "2023"
YearBranch(query) ==
    LET years == YearPositions(query)
    IN  IF years = {} THEN <<>>
        ELSE LET i == SetMin(years)
                 year == ParseInt(SubSeq(query, i, i + 3))
             IN  <<[start |-> NewDate(year, 0, 1, 0, 0, 0),
                    end |-> NewDate(year, 11, 31, 23, 59, 59)]>>

\* the month branch: "in december", "from january"
MonthBranch(query, now) ==
    LET months == MonthPositions(query)
        currentYear == GetFullYear(now)
    IN  IF months = {} THEN <<>>
        ELSE LET month == MONTHS[MonthNameAt(query, SetMin(months))]
                 year == currentYear
             IN  <<[start |-> NewDate(year, month, 1, 0, 0, 0),
                    end |-> NewDate(year, month + 1, 0, 23, 59, 59)]>>

\* start.setDate(d), start.setMonth(m), start.setFullYear(y) on a copy of now:
\* the time of day is kept
SetYMD(now, y, m, d) == [day |-> MakeDay(y, m, d), sec |-> now.sec]

\* the relative date patterns, in the order the code tests them
RelativeBranch(query, now) ==
    LET y == GetFullYear(now)
        m == GetMonth(now)
        d == GetDate(now)
    IN  IF Includes(query, "last week")
        THEN <<[start |-> SetYMD(now, y, m, d - 7), end |-> now]>>
        ELSE IF Includes(query, "last month")
        THEN <<[start |-> SetYMD(now, y, m - 1, d), end |-> now]>>
        ELSE IF Includes(query, "last year")
        THEN <<[start |-> SetYMD(now, y - 1, m, d), end |-> now]>>
        ELSE IF Includes(query, "this week")
        THEN <<[start |-> SetYMD(now, y, m, d - GetDay(now)), end |-> now]>>
        ELSE IF Includes(query, "this month")
        THEN <<[start |-> NewDate(y, m, 1, 0, 0, 0), end |-> now]>>
        ELSE IF Includes(query, "this year")
        THEN <<[start |-> NewDate(y, 0, 1, 0, 0, 0), end |-> now]>>
        ELSE IF Includes(query, "today")
        THEN <<[start |-> [day |-> now.day, sec |-> 0], end |-> now]>>
        ELSE <<>>

\* extractDates with the relative phrases tried before the year and the month
extractDates_RelativeFirst(query, now) ==
    IF RelativeBranch(query, now) # <<>> THEN RelativeBranch(query, now)
    ELSE IF YearBranch(query) # <<>> THEN YearBranch(query)
    ELSE MonthBranch(query, now)

\* extractDates with the month branch tried before the year branch
extractDates_MonthFirst(query, now) ==
    IF MonthBranch(query, now) # <<>> THEN MonthBranch(query, now)
    ELSE IF YearBranch(query) # <<>> THEN YearBranch(query)
    ELSE RelativeBranch(query, now)

extractDates(query, now) ==
    IF YearBranch(query) # <<>> THEN YearBranch(query)
    ELSE IF MonthBranch(query, now) # <<>> THEN MonthBranch(query, now)
    ELSE RelativeBranch(query, now)

(***************************************************************************)
(* extractLocations: the global pattern "at", "in" or "from" after a word   *)
(* boundary, whitespace, then one capitalised word (an upper-case letter   *)
(* and one or more lower-case letters) and any further capitalised words   *)
(* separated by whitespace; the capitalised words are captured.            *)
(***************************************************************************)
IsUpper(c) == c \in UpperSet
IsLower(c) == c \in LowerSet

\* the last position of the run of lower-case letters that starts at i
RECURSIVE LowerEnd(_, _)
LowerEnd(s, i) ==
    IF i < Len(s) /\ IsLower(CharAt(s, i + 1)) THEN LowerEnd(s, i + 1) ELSE i

\* [A-Z][a-z]+ at position k
CapWordAt(s, k) ==
    k + 1 <= Len(s) /\ IsUpper(CharAt(s, k)) /\ IsLower(CharAt(s, k + 1))

\* the end of (?:\s+[A-Z][a-z]+)* matched greedily after position e
RECURSIVE PhraseEnd(_, _)
PhraseEnd(s, e) ==
    LET k == SkipSpaces(s, e + 1)
    IN  IF k > e + 1 /\ CapWordAt(s, k)
        THEN PhraseEnd(s, LowerEnd(s, k + 1))
        ELSE e

\* <<first, last>> of the captured phrase when the pattern matches at i,
\* <<>> when it does not
LocationAt(s, i) ==
    LET prep == IF StartsAt(s, i, "at") THEN "at"
                ELSE IF StartsAt(s, i, "in") THEN "in"
                ELSE IF StartsAt(s, i, "from") THEN "from" ELSE ""
        sp == i + Len(prep)
        k == SkipSpaces(s, sp)
    IN  IF prep # "" /\ BoundaryBefore(s, i) /\ k > sp /\ CapWordAt(s, k)
        THEN <<k, PhraseEnd(s, LowerEnd(s, k + 1))>>
        ELSE <<>>

\* the exec loop: each search starts where the previous match ended
RECURSIVE LocationsFrom(_, _)
LocationsFrom(s, from) ==
    LET hits == {i \in from..Len(s) : LocationAt(s, i) # <<>>}
    IN  IF hits = {} THEN <<>>
        ELSE LET m == LocationAt(s, SetMin(hits))
             IN  <<SubSeq(s, m[1], m[2])>> \o LocationsFrom(s, m[2] + 1)

\* extractLocations with each phrase reported once
extractLocations_Unique(query) ==
    LET all == LocationsFrom(query, 1)
    IN  SelectSeq([i \in 1..Len(all) |->
                      IF \E j \in 1..(i - 1) : all[j] = all[i] THEN "" ELSE all[i]],
                  LAMBDA x : x # "")

extractLocations(query) == LocationsFrom(query, 1)

(***************************************************************************)
(* parseNaturalLanguage.  While it runs, `result` is a record with every   *)
(* field; `dates` holds <<>> until a date is found.  The record returned    *)
(* has only the fields the code leaves set (DeleteEmpty).                  *)
(***************************************************************************)
\* normalizedQuery.replace(...).split(/\s+/).filter(...)
Tokenize(normalizedQuery) ==
    SelectSeq(SplitSpaces(ReplaceNonWord(normalizedQuery)),
              LAMBDA token : Len(token) > 0 /\ token \notin STOP_WORDS)

\* SYNONYMS[token] || token without the synonym table
NormalizeToken_Identity(token) == token

\* SYNONYMS[token] || token
NormalizeToken(token) ==
    IF token \in DOMAIN SYNONYMS THEN SYNONYMS[token] ELSE token

\* list.push(x) without the includes test
PushUnique_Always(list, x) == Append(list, x)

\* if (!list.includes(x)) list.push(x)
PushUnique(list, x) == IF InSeq(x, list) THEN list ELSE Append(list, x)

\* one iteration of the loop with the keywords fallback taken for every token
CategorizeToken_KeywordAlways(result, token) ==
    LET normalizedToken == NormalizeToken(token)
        isScene == normalizedToken \in SCENE_KEYWORDS
        isObject == normalizedToken \in OBJECT_KEYWORDS
        isEmotion == normalizedToken \in EMOTION_KEYWORDS
    IN  [result EXCEPT
           !.scenes = IF isScene THEN PushUnique(@, normalizedToken) ELSE @,
           !.objects = IF isObject THEN PushUnique(@, normalizedToken) ELSE @,
           !.emotions = IF isEmotion THEN PushUnique(@, normalizedToken) ELSE @,
           !.keywords = PushUnique(@, token)]

\* one iteration of the loop with the object test made on the scene dictionary
CategorizeToken_ObjectFromScenes(result, token) ==
    LET normalizedToken == NormalizeToken(token)
        isScene == normalizedToken \in SCENE_KEYWORDS
        isObject == normalizedToken \in SCENE_KEYWORDS
        isEmotion == normalizedToken \in EMOTION_KEYWORDS
    IN  [result EXCEPT
           !.scenes = IF isScene THEN PushUnique(@, normalizedToken) ELSE @,
           !.objects = IF isObject THEN PushUnique(@, normalizedToken) ELSE @,
           !.emotions = IF isEmotion THEN PushUnique(@, normalizedToken) ELSE @,
           !.keywords = IF ~isScene /\ ~isObject /\ ~isEmotion
                        THEN PushUnique(@, token) ELSE @]

\* one iteration of the loop as a dispatch on the first dictionary that matches
CategorizeToken_FirstMatch(result, token) ==
    LET normalizedToken == NormalizeToken(token)
    IN  IF normalizedToken \in SCENE_KEYWORDS
        THEN [result EXCEPT !.scenes = PushUnique(@, normalizedToken)]
        ELSE IF normalizedToken \in OBJECT_KEYWORDS
        THEN [result EXCEPT !.objects = PushUnique(@, normalizedToken)]
        ELSE IF normalizedToken \in EMOTION_KEYWORDS
        THEN [result EXCEPT !.emotions = PushUnique(@, normalizedToken)]
        ELSE [result EXCEPT !.keywords = PushUnique(@, token)]

\* one iteration of the loop over the tokens
CategorizeToken(result, token) ==
    LET normalizedToken == NormalizeToken(token)
        isScene == normalizedToken \in SCENE_KEYWORDS
        isObject == normalizedToken \in OBJECT_KEYWORDS
        isEmotion == normalizedToken \in EMOTION_KEYWORDS
    IN  [result EXCEPT
           !.scenes = IF isScene THEN PushUnique(@, normalizedToken) ELSE @,
           !.objects = IF isObject THEN PushUnique(@, normalizedToken) ELSE @,
           !.emotions = IF isEmotion THEN PushUnique(@, normalizedToken) ELSE @,
           !.keywords = IF ~isScene /\ ~isObject /\ ~isEmotion
                        THEN PushUnique(@, token) ELSE @]

RECURSIVE CategorizeFrom(_, _, _)
CategorizeFrom(result, tokens, i) ==
    IF i > Len(tokens) THEN result
    ELSE CategorizeFrom(CategorizeToken(result, tokens[i]), tokens, i + 1)

\* calculateConfidence without the final cap
calculateConfidence_NoCap(result) ==
    30 + (Len(result.scenes) + Len(result.objects) + Len(result.emotions)) * 15
       + (IF result.dates # <<>> THEN 10 ELSE 0)
       + (IF Len(result.locations) > 0 THEN 10 ELSE 0)
       + Min(Len(result.keywords) * 5, 15)

\* calculateConfidence with the keyword part left uncapped
calculateConfidence_KeywordsUncapped(result) ==
    Min(30 + (Len(result.scenes) + Len(result.objects) + Len(result.emotions)) * 15
           + (IF result.dates # <<>> THEN 10 ELSE 0)
           + (IF Len(result.locations) > 0 THEN 10 ELSE 0)
           + Len(result.keywords) * 5,
        95)

\* in hundredths
calculateConfidence(result) ==
    LET categorizedCount ==
            Len(result.scenes) + Len(result.objects) + Len(result.emotions)
        score == 30
                 + categorizedCount * 15
                 + (IF result.dates # <<>> THEN 10 ELSE 0)
                 + (IF Len(result.locations) > 0 THEN 10 ELSE 0)
                 + Min(Len(result.keywords) * 5, 15)
    IN  Min(score, 95)

\* the clean-up of empty arrays: the fields the returned object has
DeleteEmpty(result) ==
    LET fields == {"keywords", "confidence"}
                  \cup (IF Len(result.scenes) = 0 THEN {} ELSE {"scenes"})
                  \cup (IF Len(result.objects) = 0 THEN {} ELSE {"objects"})
                  \cup (IF Len(result.emotions) = 0 THEN {} ELSE {"emotions"})
                  \cup (IF Len(result.locations) = 0 THEN {} ELSE {"locations"})
                  \cup (IF result.dates = <<>> THEN {} ELSE {"dates"})
    IN  [f \in fields |-> IF f = "dates" THEN result.dates[1] ELSE result[f]]

\* parseNaturalLanguage with the words of the date left out of the tokens
\* when a date was extracted
ParseNonBlank_DatesConsumed(query, now) ==
    LET normalizedQuery == Trim(ToLowerCase(query))
        initial == [keywords |-> <<>>, scenes |-> <<>>, objects |-> <<>>,
                    emotions |-> <<>>, confidence |-> 0,
                    dates |-> extractDates(normalizedQuery, now),
                    locations |-> extractLocations(query)]
        tokens == SelectSeq(Tokenize(normalizedQuery),
                            LAMBDA token :
                                \/ initial.dates = <<>>
                                \/ /\ token \notin {"last", "week", "month", "year", "today"}
                                   /\ token \notin DOMAIN MONTHS
                                   /\ ~(Len(token) = 4 /\ \A i \in 1..4 : IsDigit(CharAt(token, i))))
        categorized == CategorizeFrom(initial, tokens, 1)
        result == [categorized EXCEPT
                     !.confidence = calculateConfidence(categorized)]
    IN  DeleteEmpty(result)

\* the part of parseNaturalLanguage after the guard on empty input
ParseNonBlank(query, now) ==
    LET normalizedQuery == Trim(ToLowerCase(query))
        initial == [keywords |-> <<>>, scenes |-> <<>>, objects |-> <<>>,
                    emotions |-> <<>>, confidence |-> 0,
                    dates |-> extractDates(normalizedQuery, now),
                    locations |-> extractLocations(query)]
        tokens == Tokenize(normalizedQuery)
        categorized == CategorizeFrom(initial, tokens, 1)
        result == [categorized EXCEPT
                     !.confidence = calculateConfidence(categorized)]
    IN  DeleteEmpty(result)

\* parseNaturalLanguage with the guard testing only the empty string
parseNaturalLanguage_NoTrim(query, now) ==
    IF query = ""
    THEN [keywords |-> <<>>, confidence |-> 0]
    ELSE ParseNonBlank(query, now)

parseNaturalLanguage(query, now) ==
    IF query = "" \/ Len(Trim(query)) = 0
    THEN [keywords |-> <<>>, confidence |-> 0]
    ELSE ParseNonBlank(query, now)

(***************************************************************************)
(* The search box and the parser: text is typed piece by piece, the clock  *)
(* advances, and the query is parsed (the debounced preview of the search  *)
(* box and the search route both call parseNaturalLanguage on it).         *)
(***************************************************************************)
VARIABLES
    query,      \* the text of the query
    typed,      \* how many pieces of text were typed
    now,        \* the clock: what new Date() returns
    parsed,     \* <<>>, or <<the result of the latest parse of query>>
    prev,       \* <<>>, or <<the result of the parse before the latest>>
    images,     \* the rows of the image table, newest first
    input,      \* the records handed to the latest call of rankByRelevance
    ranked,     \* <<>>, or <<the result of the latest call of rankByRelevance>>
    tasks,      \* the rows of prisma.aIAnalysisTask, oldest first
    aiImages,   \* image id -> the columns of prisma.image the AI queue uses
    calls,      \* request slot -> the queue operation it runs and where it is
    started,    \* how many queue operations were started by a request
    response,   \* <<>>, or <<the endpoint that answered last and the rows it returned>>
    tagTable    \* tag name -> <<>>, or <<the row of prisma.tag with that name>>

rankVars == <<images, input, ranked>>
queueVars == <<tasks, aiImages, calls, started>>
searchVars == <<query, typed, now, parsed, prev, images, input, ranked>>
libraryVars == <<response, tagTable>>
vars == <<query, typed, now, parsed, prev, images, input, ranked, tasks,
          aiImages, calls, started, response, tagTable>>

\* the AI queue holds nothing and runs nothing
QueueUnused == tasks = <<>> /\ aiImages = <<>> /\ calls = <<>> /\ started = 0

\* no endpoint has answered and the tag table is not looked at
LibraryUnused == response = <<>> /\ tagTable = <<>>

MaxPieces == 3

Pieces ==
    {" ", "beach", "photos", " at Seaside,", " building dog", " happy sad",
     " from 2023", " last week", " in Paris"}

\* Sunday 31 March 2024 12:00:00 and Wednesday 1 January 2025 00:00:00
Instants == <<NewDate(2024, 2, 31, 12, 0, 0), NewDate(2025, 0, 1, 0, 0, 0)>>

InitParse ==
    /\ query = ""
    /\ typed = 0
    /\ now = Instants[1]
    /\ parsed = <<>>
    /\ prev = <<>>
    /\ images = <<>>
    /\ input = <<>>
    /\ ranked = <<>>
    /\ QueueUnused
    /\ LibraryUnused

Type(p) ==
    /\ typed < MaxPieces
    /\ query' = query \o p
    /\ typed' = typed + 1
    /\ parsed' = <<>>
    /\ prev' = <<>>
    /\ UNCHANGED <<now, rankVars, queueVars, libraryVars>>

Tick ==
    /\ \E i \in 1..(Len(Instants) - 1) :
          now = Instants[i] /\ now' = Instants[i + 1]
    /\ UNCHANGED <<query, typed, parsed, prev, rankVars, queueVars, libraryVars>>

Parse ==
    /\ parsed' = <<parseNaturalLanguage(query, now)>>
    /\ prev' = parsed
    /\ UNCHANGED <<query, typed, now, rankVars, queueVars, libraryVars>>

NextParse ==
    \/ \E p \in Pieces : Type(p)
    \/ Tick
    \/ Parse

SpecParse == InitParse /\ [][NextParse]_vars

(***************************************************************************)
(* Properties of the parser, checked under SpecParse.                      *)
(***************************************************************************)
IsBlank(s) == \A i \in 1..Len(s) : CharAt(s, i) \in WhiteSpace

\* the length of an optional list field of a returned query
FieldLen(r, f) == IF f \in DOMAIN r THEN Len(r[f]) ELSE 0

\* C1: for every query that is empty or only whitespace the parser returns
\* exactly {keywords: [], confidence: 0}; scenes, objects, emotions, dates and
\* locations are absent.
C1_BlankQuery ==
    (parsed # <<>> /\ IsBlank(query)) =>
        /\ DOMAIN parsed[1] = {"keywords", "confidence"}
        /\ parsed[1].keywords = <<>>
        /\ parsed[1].confidence = 0

C1_Witness == parsed # <<>> /\ Len(query) >= 3 /\ IsBlank(query)

\* C2: for every query the confidence lies in [0, 0.95].
C2_ConfidenceRange ==
    parsed # <<>> => (0 <= parsed[1].confidence /\ parsed[1].confidence <= 95)

\* five categorized terms: the uncapped sum 0.30 + 5 * 0.15 exceeds 0.95
C2_Witness ==
    /\ parsed # <<>>
    /\ FieldLen(parsed[1], "scenes") + FieldLen(parsed[1], "objects")
         + FieldLen(parsed[1], "emotions") >= 5
    /\ parsed[1].confidence = 95

\* the confidence formula of the claim, from the returned query
ExpectedConfidence(r) ==
    Min(95,
        30 + 15 * (FieldLen(r, "scenes") + FieldLen(r, "objects")
                     + FieldLen(r, "emotions"))
           + (IF "dates" \in DOMAIN r THEN 10 ELSE 0)
           + (IF FieldLen(r, "locations") >= 1 THEN 10 ELSE 0)
           + Min(5 * Len(r.keywords), 15))

\* the query has exactly one token after stop-word removal, a scene term
OneSceneToken(q) ==
    LET tokens == Tokenize(Trim(ToLowerCase(q)))
    IN  Len(tokens) = 1 /\ NormalizeToken(tokens[1]) \in SCENE_KEYWORDS

\* C3 as stated: for every non-empty query the confidence is the formula, and
\* a query whose only non-stop-word token is one scene term yields
\* scenes = [term], keywords = [] and confidence 0.45.
C3_Original ==
    (parsed # <<>> /\ query # "") =>
        /\ parsed[1].confidence = ExpectedConfidence(parsed[1])
        /\ OneSceneToken(query) =>
              /\ FieldLen(parsed[1], "scenes") = 1
              /\ parsed[1].keywords = <<>>
              /\ parsed[1].confidence = 45

\* C3 amended: for every query that is not empty or only whitespace the
\* confidence is the formula; a query whose only non-stop-word token is one
\* scene term yields scenes = [term] and keywords = [], and confidence 0.45
\* when the term is in no other dictionary and no location was extracted.
C3_Confidence ==
    (parsed # <<>> /\ ~IsBlank(query)) =>
        /\ parsed[1].confidence = ExpectedConfidence(parsed[1])
        /\ OneSceneToken(query) =>
              /\ FieldLen(parsed[1], "scenes") = 1
              /\ parsed[1].keywords = <<>>
              /\ ("objects" \notin DOMAIN parsed[1]
                    /\ "locations" \notin DOMAIN parsed[1])
                   => parsed[1].confidence = 45

C3_Witness ==
    /\ query = "beach photos"
    /\ parsed # <<>>
    /\ parsed[1].scenes = <<"beach">>
    /\ parsed[1].keywords = <<>>
    /\ parsed[1].confidence = 45

ListOr(r, f) == IF f \in DOMAIN r THEN r[f] ELSE <<>>

\* new Set(arr.map(s => s.toLowerCase()))
LowerSetOf(arr) == {ToLowerCase(arr[i]) : i \in 1..Len(arr)}

\* countMatches: the loop over set2 that counts the items set1 has
RECURSIVE CountIn(_, _)
CountIn(set2, set1) ==
    IF set2 = {} THEN 0
    ELSE LET item == CHOOSE x \in set2 : TRUE
         IN  (IF item \in set1 THEN 1 ELSE 0) + CountIn(set2 \ {item}, set1)

countMatches(arr1, arr2) == CountIn(LowerSetOf(arr2), LowerSetOf(arr1))

\* the matches of the three label lists, weighted 5, 5 and 3
LabelMatches(aiLabels, parsedQuery) ==
    (IF "scenes" \in DOMAIN parsedQuery
     THEN countMatches(ListOr(aiLabels, "scenes"), parsedQuery.scenes) * 5
     ELSE 0)
    + (IF "objects" \in DOMAIN parsedQuery
       THEN countMatches(ListOr(aiLabels, "objects"), parsedQuery.objects) * 5
       ELSE 0)
    + (IF "emotions" \in DOMAIN parsedQuery
       THEN countMatches(ListOr(aiLabels, "emotions"), parsedQuery.emotions) * 3
       ELSE 0)

\* the AI label part of the score with the scaling by aiConfidence dropped
AiLabelScore_Unscaled(img, parsedQuery) ==
    IF img.aiLabels = <<>> THEN 0
    ELSE 100 * LabelMatches(img.aiLabels[1], parsedQuery)

\* score after the block "AI label matches": the matches, times aiConfidence
\* when it is truthy (not null and not 0)
AiLabelScore(img, parsedQuery) ==
    IF img.aiLabels = <<>> THEN 0
    ELSE IF img.aiConfidence # <<>> /\ img.aiConfidence[1] # 0
    THEN LabelMatches(img.aiLabels[1], parsedQuery) * img.aiConfidence[1]
    ELSE LabelMatches(img.aiLabels[1], parsedQuery) * 100

\* [...(parsed.scenes || []), ...(parsed.objects || []),
\*  ...(parsed.emotions || []), ...parsed.keywords]
AllSearchTerms(parsedQuery) ==
    ListOr(parsedQuery, "scenes") \o ListOr(parsedQuery, "objects")
      \o ListOr(parsedQuery, "emotions") \o parsedQuery.keywords

\* img.tags.map(t => t.tag.name.toLowerCase())
TagNames(img) == [i \in 1..Len(img.tags) |-> ToLowerCase(img.tags[i].name)]

\* the tag bonus with every search term counted, repeated ones too
TagBonus_PerTerm(img, parsedQuery) ==
    LET terms == AllSearchTerms(parsedQuery)
    IN  300 * Cardinality({i \in 1..Len(terms) :
                             ToLowerCase(terms[i]) \in LowerSetOf(TagNames(img))})

TagBonus(img, parsedQuery) ==
    countMatches(TagNames(img), AllSearchTerms(parsedQuery)) * 300

\* x?.toLowerCase() || '' for a nullable text column
LowerOrEmpty(opt) == IF opt = <<>> THEN "" ELSE ToLowerCase(opt[1])

TextFields(img) ==
    <<ToLowerCase(img.originalName), LowerOrEmpty(img.title),
      LowerOrEmpty(img.description)>>

\* the text bonus with at most one award per keyword
TextBonus_OncePerKeyword(img, parsedQuery) ==
    200 * Cardinality({k \in 1..Len(parsedQuery.keywords) :
              \E f \in 1..3 :
                  Includes(TextFields(img)[f],
                           ToLowerCase(parsedQuery.keywords[k]))})

\* the inner loop: for (const field of textFields) if (field.includes(kw)) score += 2
RECURSIVE FieldLoop(_, _, _)
FieldLoop(fields, keyword, f) ==
    IF f > Len(fields) THEN 0
    ELSE (IF Includes(fields[f], ToLowerCase(keyword)) THEN 200 ELSE 0)
         + FieldLoop(fields, keyword, f + 1)

\* the outer loop: for (const keyword of parsed.keywords)
RECURSIVE KeywordLoop(_, _, _)
KeywordLoop(fields, keywords, k) ==
    IF k > Len(keywords) THEN 0
    ELSE FieldLoop(fields, keywords[k], 1) + KeywordLoop(fields, keywords, k + 1)

TextBonus(img, parsedQuery) ==
    KeywordLoop(TextFields(img), parsedQuery.keywords, 1)

DateBonus(img, parsedQuery) ==
    IF /\ "dates" \in DOMAIN parsedQuery
       /\ img.takenAt # <<>>
       /\ DateLE(parsedQuery.dates.start, img.takenAt[1])
       /\ DateLE(img.takenAt[1], parsedQuery.dates.end)
    THEN 100 ELSE 0

\* the score the map callback of rankByRelevance computes
Score(img, parsedQuery) ==
    AiLabelScore(img, parsedQuery) + TagBonus(img, parsedQuery)
      + TextBonus(img, parsedQuery) + DateBonus(img, parsedQuery)

\* { ...img, relevanceScore: score }
WithScore(img, parsedQuery) ==
    ("relevanceScore" :> Score(img, parsedQuery)) @@ img

\* the filter with >= in place of >
KeepRelevant_NonNegative(records) ==
    SelectSeq(records, LAMBDA r : r.relevanceScore >= 0)

\* .filter(img => img.relevanceScore > 0)
KeepRelevant(records) == SelectSeq(records, LAMBDA r : r.relevanceScore > 0)

\* an unstable sort: a record is placed before the records of equal score
InsertByScore_BeforeEqual(sorted, r) ==
    LET k == Cardinality({i \in 1..Len(sorted) :
                            sorted[i].relevanceScore > r.relevanceScore})
    IN  SubSeq(sorted, 1, k) \o <<r>> \o SubSeq(sorted, k + 1, Len(sorted))

\* Array.prototype.sort is stable: with the comparator b.score - a.score a
\* record goes after every record whose score is greater or equal
InsertByScore(sorted, r) ==
    LET k == Cardinality({i \in 1..Len(sorted) :
                            sorted[i].relevanceScore >= r.relevanceScore})
    IN  SubSeq(sorted, 1, k) \o <<r>> \o SubSeq(sorted, k + 1, Len(sorted))

\* .sort((a, b) => b.relevanceScore - a.relevanceScore)
RECURSIVE SortByScore(_)
SortByScore(records) ==
    IF records = <<>> THEN <<>>
    ELSE InsertByScore(SortByScore(SubSeq(records, 1, Len(records) - 1)),
                       records[Len(records)])

rankByRelevance(imgs, parsedQuery) ==
    SortByScore(KeepRelevant([i \in 1..Len(imgs) |->
                                 WithScore(imgs[i], parsedQuery)]))

(***************************************************************************)
(* buildWhereClause and the query it is handed to.  A condition of the OR  *)
(* list is [kind, key, value, values]:                                     *)
(*   jsonArrayContains  aiLabels: {path: [key], array_contains: value}     *)
(*   tagTypeNameIn      tags: {some: {tag: {type: key, name: {in: values}}}} *)
(*   columnContains     key: {contains: value, mode: 'insensitive'}        *)
(*   tagNameContains    tags: {some: {tag: {name: {contains: value, ...}}}} *)
(***************************************************************************)
RECURSIVE Concat(_)
Concat(seqs) == IF seqs = <<>> THEN <<>> ELSE Head(seqs) \o Concat(Tail(seqs))

Cond(kind, key, value, values) ==
    [kind |-> kind, key |-> key, value |-> value, values |-> values]

LabelConditions(label) ==
    <<Cond("jsonArrayContains", "scenes", label, <<>>),
      Cond("jsonArrayContains", "objects", label, <<>>),
      Cond("jsonArrayContains", "emotions", label, <<>>)>>

KeywordConditions(keyword) ==
    <<Cond("columnContains", "originalName", keyword, <<>>),
      Cond("columnContains", "title", keyword, <<>>),
      Cond("columnContains", "description", keyword, <<>>),
      Cond("tagNameContains", "", keyword, <<>>)>>

LocationConditions(location) ==
    <<Cond("columnContains", "city", location, <<>>),
      Cond("columnContains", "country", location, <<>>),
      Cond("columnContains", "state", location, <<>>)>>

OrConditions(parsedQuery) ==
    LET aiLabels == ListOr(parsedQuery, "scenes") \o ListOr(parsedQuery, "objects")
                      \o ListOr(parsedQuery, "emotions")
        locations == ListOr(parsedQuery, "locations")
    IN  (IF Len(aiLabels) > 0
         THEN Concat([i \in 1..Len(aiLabels) |-> LabelConditions(aiLabels[i])])
                \o <<Cond("tagTypeNameIn", "AUTO_AI", "", aiLabels)>>
         ELSE <<>>)
        \o Concat([i \in 1..Len(parsedQuery.keywords) |->
                      KeywordConditions(parsedQuery.keywords[i])])
        \o (IF Len(locations) > 0
            THEN <<Cond("tagTypeNameIn", "AUTO_EXIF", "", locations)>>
                   \o Concat([i \in 1..Len(locations) |->
                                 LocationConditions(locations[i])])
            ELSE <<>>)

\* the where clause: OR is set when there is a condition, takenAt when the
\* query has dates
buildWhereClause(parsedQuery, userId) ==
    LET orConditions == OrConditions(parsedQuery)
        fields == {"userId", "deletedAt"}
                  \cup (IF Len(orConditions) > 0 THEN {"OR"} ELSE {})
                  \cup (IF "dates" \in DOMAIN parsedQuery THEN {"takenAt"} ELSE {})
    IN  [f \in fields |->
            CASE f = "userId" -> userId
              [] f = "deletedAt" -> <<>>
              [] f = "OR" -> orConditions
              [] f = "takenAt" -> [gte |-> parsedQuery.dates.start,
                                   lte |-> parsedQuery.dates.end]]

\* the value of a text column as <<>> (null) or <<text>>
ColumnText(img, column) ==
    IF column = "originalName" THEN <<img.originalName>> ELSE img[column]

\* what the database answers for one condition on one row
CondHolds(cond, img) ==
    CASE cond.kind = "jsonArrayContains" ->
            /\ img.aiLabels # <<>>
            /\ InSeq(cond.value, ListOr(img.aiLabels[1], cond.key))
      [] cond.kind = "tagTypeNameIn" ->
            \E i \in 1..Len(img.tags) :
                img.tags[i].type = cond.key /\ InSeq(img.tags[i].name, cond.values)
      [] cond.kind = "columnContains" ->
            /\ ColumnText(img, cond.key) # <<>>
            /\ Includes(ToLowerCase(ColumnText(img, cond.key)[1]),
                        ToLowerCase(cond.value))
      [] cond.kind = "tagNameContains" ->
            \E i \in 1..Len(img.tags) :
                Includes(ToLowerCase(img.tags[i].name), ToLowerCase(cond.value))

\* whether a row satisfies the where clause
Matches(where, img) ==
    /\ img.userId = where.userId
    /\ img.deletedAt = where.deletedAt
    /\ "OR" \in DOMAIN where =>
          \E i \in 1..Len(where.OR) : CondHolds(where.OR[i], img)
    /\ "takenAt" \in DOMAIN where =>
          /\ img.takenAt # <<>>
          /\ DateLE(where.takenAt.gte, img.takenAt[1])
          /\ DateLE(img.takenAt[1], where.takenAt.lte)

DefaultPage == 1
DefaultLimit == 20

\* prisma.image.findMany({where, orderBy: {createdAt: 'desc'}, skip, take})
\* on a table listed newest first
findMany(table, where, skip, take) ==
    LET rows == SelectSeq(table, LAMBDA img : Matches(where, img))
    IN  SubSeq(rows, skip + 1, Min(Len(rows), skip + take))

(***************************************************************************)
(* The search route and the ranker on bounded inputs.                      *)
(***************************************************************************)
SessionUser == "u1"

Taken2023 == NewDate(2023, 6, 1, 10, 0, 0)
Taken2024 == NewDate(2024, 1, 1, 9, 30, 0)

Row(id, userId, deletedAt, originalName, title, description, aiLabels, aiConfidence, tags, takenAt, city) ==
    [id |-> id, userId |-> userId, deletedAt |-> deletedAt,
     originalName |-> originalName, title |-> title,
     description |-> description, aiLabels |-> aiLabels,
     aiConfidence |-> aiConfidence, tags |-> tags, takenAt |-> takenAt,
     city |-> city, country |-> <<>>, state |-> <<>>]

BeachLabels == [scenes |-> <<"beach">>, objects |-> <<>>, emotions |-> <<>>]
BeachTag == [name |-> "beach", type |-> "CUSTOM"]

\* the rows the image table is filled from; tag names are unique, so a name
\* has the same type on every row
ImagePool ==
    {Row(1, "u1", <<>>, "IMG_0001.JPG", <<>>, <<>>, <<BeachLabels>>, <<80>>,
         <<BeachTag>>, <<Taken2023>>, <<>>),
     Row(2, "u1", <<>>, "IMG_0002.JPG", <<>>, <<>>, <<BeachLabels>>, <<80>>,
         <<BeachTag>>, <<Taken2023>>, <<>>),
     Row(3, "u1", <<>>, "dog.png", <<"Happy Dog">>, <<>>,
         <<[scenes |-> <<"Beach", "sunset">>, objects |-> <<"dog">>,
            emotions |-> <<"happy">>]>>,
         <<0>>, <<>>, <<>>, <<>>),
     Row(4, "u1", <<>>, "paris trip 2023.jpg", <<"Paris">>,
         <<"a trip to paris">>, <<>>, <<>>,
         <<BeachTag, [name |-> "Paris", type |-> "AUTO_EXIF"]>>,
         <<Taken2024>>, <<"Paris">>),
     Row(5, "u1", <<>>, "building.png", <<>>, <<>>,
         <<[scenes |-> <<"building">>, objects |-> <<"building">>]>>, <<>>,
         <<[name |-> "building", type |-> "AUTO_AI"]>>, <<>>, <<>>),
     Row(6, "u2", <<>>, "IMG_0006.JPG", <<>>, <<>>, <<BeachLabels>>, <<80>>,
         <<BeachTag>>, <<Taken2023>>, <<>>),
     Row(7, "u1", <<Taken2024>>, "IMG_0007.JPG", <<>>, <<>>, <<BeachLabels>>,
         <<80>>, <<BeachTag>>, <<Taken2023>>, <<>>)}

MaxImages == 3

\* the sequences of at most n distinct rows of the pool
RECURSIVE Tables(_)
Tables(n) ==
    IF n = 0 THEN {<<>>}
    ELSE LET shorter == Tables(n - 1)
         IN  shorter \cup
             {Append(t, r) : <<t, r>> \in
                  {tr \in shorter \X ImagePool :
                      /\ Len(tr[1]) = n - 1
                      /\ \A i \in 1..Len(tr[1]) : tr[1][i].id # tr[2].id}}

SearchQueries ==
    {"beach photos", "happy dog beach from 2023", "building in Paris",
     "paris trip from 2023"}

InitRank ==
    /\ query \in SearchQueries
    /\ typed = 0
    /\ now = Instants[1]
    /\ parsed = <<>>
    /\ prev = <<>>
    /\ images \in Tables(MaxImages)
    /\ input = <<>>
    /\ ranked = <<>>
    /\ QueueUnused
    /\ LibraryUnused

\* GET /api/search/nl?q=query of the session user, default page and limit
\* (each value is bound once, as the code's const declarations are)
GET ==
    /\ Len(Trim(query)) > 0
    /\ \E parsedQuery \in {parseNaturalLanguage(query, now)} :
       \E where \in {buildWhereClause(parsedQuery, SessionUser)} :
       \E found \in {findMany(images, where, (DefaultPage - 1) * DefaultLimit,
                              DefaultLimit)} :
          /\ parsed' = <<parsedQuery>>
          /\ prev' = parsed
          /\ input' = found
          /\ ranked' = <<rankByRelevance(found, parsedQuery)>>
    /\ UNCHANGED <<query, typed, now, images, queueVars, libraryVars>>

\* rankByRelevance applied to the whole table
Rank ==
    /\ \E parsedQuery \in {parseNaturalLanguage(query, now)} :
          /\ parsed' = <<parsedQuery>>
          /\ prev' = parsed
          /\ input' = images
          /\ ranked' = <<rankByRelevance(images, parsedQuery)>>
    /\ UNCHANGED <<query, typed, now, images, queueVars, libraryVars>>

NextRank == GET \/ Rank

SpecRank == InitRank /\ [][NextRank]_vars

(***************************************************************************)
(* Properties of the ranker and of the search route, checked under         *)
(* SpecRank.                                                               *)
(***************************************************************************)
\* a ranked record without its relevanceScore
Unscored(r) == [f \in DOMAIN r \ {"relevanceScore"} |-> r[f]]

\* the position in the input of the record with a ranked record's id
InputPos(r) == CHOOSE i \in 1..Len(input) : input[i].id = r.id

\* the ranked records that come from a given input record
RankedOf(img) == {k \in 1..Len(ranked[1]) : ranked[1][k].id = img.id}

\* C5: rankByRelevance returns only records with relevanceScore > 0, each
\* output record is one of the input records, and the output is no longer
\* than the input.
C5_OnlyRelevant ==
    ranked # <<>> =>
        /\ Len(ranked[1]) <= Len(input)
        /\ \A k \in 1..Len(ranked[1]) :
              /\ ranked[1][k].relevanceScore > 0
              /\ \E i \in 1..Len(input) : input[i] = Unscored(ranked[1][k])

\* some records are returned and some are dropped
C5_Witness ==
    /\ ranked # <<>>
    /\ Len(ranked[1]) >= 1
    /\ Len(ranked[1]) < Len(input)

\* C6: the output is sorted by relevanceScore, highest first, and records of
\* equal score keep the relative order they have in the input.
C6_SortedStable ==
    ranked # <<>> =>
        \A a, b \in 1..Len(ranked[1]) :
            a < b =>
                \/ ranked[1][a].relevanceScore > ranked[1][b].relevanceScore
                \/ /\ ranked[1][a].relevanceScore = ranked[1][b].relevanceScore
                   /\ InputPos(ranked[1][a]) < InputPos(ranked[1][b])

\* a tie, and a pair the sort has moved out of input order
C6_Witness ==
    /\ ranked # <<>>
    /\ \E a, b \in 1..Len(ranked[1]) :
          a < b /\ ranked[1][a].relevanceScore = ranked[1][b].relevanceScore
    /\ \E a, b \in 1..Len(ranked[1]) :
          a < b /\ InputPos(ranked[1][a]) > InputPos(ranked[1][b])

\* the lower-cased terms of an optional list of the query
QueryTerms(q, f) == LowerSetOf(ListOr(q, f))

\* the lower-cased labels of one category of a record (absent: none)
RecordLabels(img, f) ==
    IF img.aiLabels = <<>> THEN {} ELSE LowerSetOf(ListOr(img.aiLabels[1], f))

\* the AI-label component as the claim states it, in hundredths
ExpectedAiComponent(img, q) ==
    LET base == 5 * Cardinality(QueryTerms(q, "scenes") \cap RecordLabels(img, "scenes"))
                + 5 * Cardinality(QueryTerms(q, "objects") \cap RecordLabels(img, "objects"))
                + 3 * Cardinality(QueryTerms(q, "emotions") \cap RecordLabels(img, "emotions"))
    IN  IF img.aiConfidence # <<>> /\ img.aiConfidence[1] # 0
        THEN base * img.aiConfidence[1]
        ELSE base * 100

\* C7: the AI-label component of a record's score is 5 per matching scene, 5
\* per matching object and 3 per matching emotion (case-insensitive, absent
\* lists empty), times aiConfidence when it is present and non-zero and
\* unscaled otherwise: the returned score is that component plus the tag,
\* text and date bonuses, and a record that is dropped has component 0.
C7_AiLabelComponent ==
    ranked # <<>> =>
        \A i \in 1..Len(input) :
            IF RankedOf(input[i]) = {}
            THEN ExpectedAiComponent(input[i], parsed[1]) = 0
            ELSE \A k \in RankedOf(input[i]) :
                    ranked[1][k].relevanceScore =
                        ExpectedAiComponent(input[i], parsed[1])
                          + TagBonus(input[i], parsed[1])
                          + TextBonus(input[i], parsed[1])
                          + DateBonus(input[i], parsed[1])

\* one matching scene with aiConfidence 0.8 contributes 4.0, and matches with
\* aiConfidence 0 are left unscaled
C7_Witness ==
    /\ ranked # <<>>
    /\ \E i \in 1..Len(input) :
          /\ input[i].aiConfidence = <<80>>
          /\ ExpectedAiComponent(input[i], parsed[1]) = 400
          /\ RankedOf(input[i]) # {}
    /\ \E i \in 1..Len(input) :
          /\ input[i].aiConfidence = <<0>>
          /\ ExpectedAiComponent(input[i], parsed[1]) = 1300
          /\ RankedOf(input[i]) # {}

\* the tag bonus as the claim states it, in hundredths
ExpectedTagBonus(img, q) ==
    LET terms == QueryTerms(q, "scenes") \cup QueryTerms(q, "objects")
                   \cup QueryTerms(q, "emotions") \cup LowerSetOf(q.keywords)
    IN  300 * Cardinality({t \in terms :
                             \E i \in 1..Len(img.tags) :
                                 ToLowerCase(img.tags[i].name) = t})

\* C8: the tag bonus is 3 per distinct term of scenes, objects, emotions and
\* keywords that equals a tag name of the record case-insensitively, a term
\* of two categories counted once, and it is not scaled by aiConfidence.
C8_TagBonus ==
    ranked # <<>> =>
        \A i \in 1..Len(input) :
            IF RankedOf(input[i]) = {}
            THEN ExpectedTagBonus(input[i], parsed[1]) = 0
            ELSE \A k \in RankedOf(input[i]) :
                    ranked[1][k].relevanceScore =
                        AiLabelScore(input[i], parsed[1])
                          + ExpectedTagBonus(input[i], parsed[1])
                          + TextBonus(input[i], parsed[1])
                          + DateBonus(input[i], parsed[1])

\* "building" is a scene and an object of the query and a tag of the record;
\* a record with aiConfidence 0.8 has a tag match as well
C8_Witness ==
    /\ ranked # <<>>
    /\ "scenes" \in DOMAIN parsed[1] /\ "objects" \in DOMAIN parsed[1]
    /\ InSeq("building", parsed[1].scenes) /\ InSeq("building", parsed[1].objects)
    /\ \E i \in 1..Len(input) :
          /\ \E t \in 1..Len(input[i].tags) : input[i].tags[t].name = "building"
          /\ ExpectedTagBonus(input[i], parsed[1]) = 300
          /\ RankedOf(input[i]) # {}

\* the free-text bonus as the claim states it, in hundredths
ExpectedTextBonus(img, q) ==
    LET FieldText(f) == IF f = "name" THEN ToLowerCase(img.originalName)
                        ELSE IF img[f] = <<>> THEN "" ELSE ToLowerCase(img[f][1])
    IN  200 * Cardinality({kf \in LowerSetOf(q.keywords)
                                    \X {"name", "title", "description"} :
                              Includes(FieldText(kf[2]), kf[1])})

\* C9: the free-text bonus is 2 per pair of a query keyword and one of the
\* fields name, title, description whose lower-cased text contains the
\* lower-cased keyword; category terms take no part.
C9_TextBonus ==
    ranked # <<>> =>
        \A i \in 1..Len(input) :
            IF RankedOf(input[i]) = {}
            THEN ExpectedTextBonus(input[i], parsed[1]) = 0
            ELSE \A k \in RankedOf(input[i]) :
                    ranked[1][k].relevanceScore =
                        AiLabelScore(input[i], parsed[1])
                          + TagBonus(input[i], parsed[1])
                          + ExpectedTextBonus(input[i], parsed[1])
                          + DateBonus(input[i], parsed[1])

\* a keyword that scores in three fields, and a record whose name holds a
\* category term of the query and earns nothing for it
C9_Witness ==
    /\ ranked # <<>>
    /\ \E i \in 1..Len(input) :
          /\ ExpectedTextBonus(input[i], parsed[1]) >= 600
          /\ RankedOf(input[i]) # {}
    /\ \E i \in 1..Len(input) :
          /\ "scenes" \in DOMAIN parsed[1]
          /\ Includes(ToLowerCase(input[i].originalName), parsed[1].scenes[1])
          /\ ExpectedTextBonus(input[i], parsed[1]) = 0
          /\ RankedOf(input[i]) # {}

\* C10: every image of the user that is not deleted and that rankByRelevance
\* scores above 0 for a query satisfies the where clause buildWhereClause
\* builds from the same query.
C10_FilterOverSelects ==
    parsed # <<>> =>
        \A i \in 1..Len(images) :
            (/\ images[i].userId = SessionUser
             /\ images[i].deletedAt = <<>>
             /\ Score(images[i], parsed[1]) > 0)
            => Matches(buildWhereClause(parsed[1], SessionUser), images[i])

(***************************************************************************)
(* Date phrases: a query is put together from phrases that carry the date  *)
(* forms, the clock is read once, and the query is parsed.                 *)
(***************************************************************************)
MaxPhrases == 2

DatePhrases ==
    {" 2023", " from 1999", " 0050", " 12345", " in march", " from dec",
     " last week", " last month", " last year", " this week", " this month",
     " this year", " today", " sunset"}

\* Sunday 31 March 2024 12:00:00, Thursday 29 February 2024 08:30:00 and
\* Wednesday 1 January 2025 00:00:00
DateInstants ==
    {NewDate(2024, 2, 31, 12, 0, 0), NewDate(2024, 1, 29, 8, 30, 0),
     NewDate(2025, 0, 1, 0, 0, 0)}

InitDates ==
    /\ query = ""
    /\ typed = 0
    /\ now \in DateInstants
    /\ parsed = <<>>
    /\ prev = <<>>
    /\ images = <<>>
    /\ input = <<>>
    /\ ranked = <<>>
    /\ QueueUnused
    /\ LibraryUnused

TypePhrase(p) ==
    /\ typed < MaxPhrases
    /\ query' = query \o p
    /\ typed' = typed + 1
    /\ parsed' = <<>>
    /\ prev' = <<>>
    /\ UNCHANGED <<now, rankVars, queueVars, libraryVars>>

NextDates ==
    \/ \E p \in DatePhrases : TypePhrase(p)
    \/ Parse

SpecDates == InitDates /\ [][NextDates]_vars

(***************************************************************************)
(* Properties of extractDates, checked under SpecDates: `now` is the value *)
(* the clock had during the parse.                                         *)
(***************************************************************************)
\* the text extractDates is called on
NormalizedQuery == Trim(ToLowerCase(query))

RelativePhrases ==
    <<"last week", "last month", "last year", "this week", "this month",
      "this year", "today">>

\* the date forms in the order of the claimed priority: 1 the 4-digit year,
\* 2 the month name after in/from, 3..9 the relative phrases
DateForms == 1..(2 + Len(RelativePhrases))

DateFormPresent(q, k) ==
    IF k = 1 THEN YearPositions(q) # {}
    ELSE IF k = 2 THEN MonthPositions(q) # {}
    ELSE Includes(q, RelativePhrases[k - 2])

\* the range form k gives when it is the one applied
DateFormRange(q, k) ==
    IF k = 1 THEN YearBranch(q)[1]
    ELSE IF k = 2 THEN MonthBranch(q, now)[1]
    ELSE RelativeBranch(RelativePhrases[k - 2], now)[1]

PresentForms == {k \in DateForms : DateFormPresent(NormalizedQuery, k)}

\* C11: date extraction applies exactly one branch by fixed priority: the
\* 4-digit year, then the month name after in/from, then the relative phrases
\* in the order last week, last month, last year, this week, this month, this
\* year, today; the date range is the one of the highest-priority form that
\* occurs in the query and is absent when no form occurs.
C11_DatePriority ==
    (parsed # <<>> /\ ~IsBlank(query)) =>
        IF PresentForms = {}
        THEN "dates" \notin DOMAIN parsed[1]
        ELSE /\ "dates" \in DOMAIN parsed[1]
             /\ parsed[1].dates = DateFormRange(NormalizedQuery, SetMin(PresentForms))

\* a query with a year and a month name, resolved by the year
C11_Witness ==
    /\ parsed # <<>>
    /\ {1, 2} \subseteq PresentForms
    /\ parsed[1].dates = YearBranch(NormalizedQuery)[1]
    /\ parsed[1].dates # MonthBranch(NormalizedQuery, now)[1]

\* 1 January 00:00:00 and 31 December 23:59:59 of calendar year y
YearStart(y) == [day |-> MakeDay(y, 0, 1), sec |-> 0]
YearEnd(y) == [day |-> MakeDay(y, 11, 31), sec |-> 86399]

\* C12: for every query with a standalone run of exactly four digits Y
\* (0000 to 9999, optionally after "from") the date range is 1 January of
\* year Y 00:00:00 to 31 December of year Y 23:59:59; a digit run of another
\* length does not trigger the year branch and extraction falls through.
C12_YearRange ==
    (parsed # <<>> /\ ~IsBlank(query)) =>
        LET years == YearPositions(NormalizedQuery)
        IN  IF years # {}
            THEN LET i == SetMin(years)
                     Y == ParseInt(SubSeq(NormalizedQuery, i, i + 3))
                 IN  /\ "dates" \in DOMAIN parsed[1]
                     /\ parsed[1].dates = [start |-> YearStart(Y), end |-> YearEnd(Y)]
            ELSE IF PresentForms = {}
                 THEN "dates" \notin DOMAIN parsed[1]
                 ELSE parsed[1].dates = DateFormRange(NormalizedQuery, SetMin(PresentForms))

\* the parse of a query whose year has leading zeros
C12_Witness ==
    /\ parsed # <<>>
    /\ YearPositions(NormalizedQuery) # {}
    /\ ParseInt(SubSeq(NormalizedQuery, SetMin(YearPositions(NormalizedQuery)),
                       SetMin(YearPositions(NormalizedQuery)) + 3)) < 100
    /\ "dates" \in DOMAIN parsed[1]

\* the calendar month before the month of dt, as <<year, month>>
PreviousMonth(dt) ==
    IF GetMonth(dt) = 0 THEN <<GetFullYear(dt) - 1, 11>>
    ELSE <<GetFullYear(dt), GetMonth(dt) - 1>>

\* what the claim says of the start of the range of relative phrase k
RelativeStartAsClaimed(k, start) ==
    CASE k = 1 -> start = [day |-> now.day - 7, sec |-> now.sec]
      [] k = 2 -> /\ <<GetFullYear(start), GetMonth(start)>> = PreviousMonth(now)
                  /\ start.sec = now.sec
      [] k = 3 -> GetFullYear(start) = GetFullYear(now) - 1 /\ start.sec = now.sec
      [] k = 4 -> /\ GetDay(start) = 0
                  /\ now.day - 6 <= start.day /\ start.day <= now.day
      [] k = 5 -> start = [day |-> MakeDay(GetFullYear(now), GetMonth(now), 1),
                           sec |-> 0]
      [] k = 6 -> start = YearStart(GetFullYear(now))
      [] k = 7 -> start = [day |-> now.day, sec |-> 0]

\* C13: for every query resolved by a relative phrase, the end of the range
\* is the evaluation-time now and start <= end; start is now minus 7 days,
\* minus 1 calendar month, minus 1 calendar year for last week, last month,
\* last year, and the start of the week (the most recent day with
\* day-of-week index 0), the 1st of the current month, 1 January of the
\* current year and local midnight of today for this week, this month, this
\* year and today.
C13_RelativeRange ==
    (parsed # <<>> /\ PresentForms # {} /\ SetMin(PresentForms) >= 3) =>
        /\ parsed[1].dates.end = now
        /\ DateLE(parsed[1].dates.start, parsed[1].dates.end)
        /\ RelativeStartAsClaimed(SetMin(PresentForms) - 2, parsed[1].dates.start)

\* "last month" parsed on the 31st of a month
C13_Witness ==
    /\ parsed # <<>>
    /\ PresentForms # {} /\ SetMin(PresentForms) = 4
    /\ GetDate(now) = 31

(***************************************************************************)
(* Words: a query is put together from words of the dictionaries, synonyms,*)
(* stop words and other words, or is one key of the synonym table followed *)
(* by a stop word, and is parsed.                                          *)
(***************************************************************************)
MaxWords == 3

WordPieces ==
    {" seaside coast", " beach", " Building,", " joyful kid", " happy",
     " trip", " vacation trip", " the pics", "-time"}

InitWords ==
    /\ query = ""
    /\ typed = 0
    /\ now = Instants[1]
    /\ parsed = <<>>
    /\ prev = <<>>
    /\ images = <<>>
    /\ input = <<>>
    /\ ranked = <<>>
    /\ QueueUnused
    /\ LibraryUnused

TypeWord(p) ==
    /\ typed < MaxWords
    /\ query' = query \o p
    /\ typed' = typed + 1
    /\ parsed' = <<>>
    /\ prev' = <<>>
    /\ UNCHANGED <<now, rankVars, queueVars, libraryVars>>

\* the whole query is one key of the synonym table and a stop word
TypeSynonym(k) ==
    /\ query = ""
    /\ query' = k \o " pics"
    /\ typed' = MaxWords
    /\ parsed' = <<>>
    /\ prev' = <<>>
    /\ UNCHANGED <<now, rankVars, queueVars, libraryVars>>

NextWords ==
    \/ \E p \in WordPieces : TypeWord(p)
    \/ \E k \in DOMAIN SYNONYMS : TypeSynonym(k)
    \/ Parse

SpecWords == InitWords /\ [][NextWords]_vars

(***************************************************************************)
(* Properties of the categorization, checked under SpecWords.              *)
(***************************************************************************)
Categories == {"scenes", "objects", "emotions"}

Dictionary(c) ==
    IF c = "scenes" THEN SCENE_KEYWORDS
    ELSE IF c = "objects" THEN OBJECT_KEYWORDS
    ELSE EMOTION_KEYWORDS

AllDictionaries == SCENE_KEYWORDS \cup OBJECT_KEYWORDS \cup EMOTION_KEYWORDS

\* the elements of an optional list field of a returned query
FieldSet(r, f) == IF f \in DOMAIN r THEN {r[f][i] : i \in 1..Len(r[f])} ELSE {}

\* the maximal runs of word characters of the lower-cased query: the tokens
\* before stop-word removal, as a set of <<first, last>> positions
WordSpans(s) ==
    {<<i, WordEnd(s, i)>> : i \in {j \in 1..Len(s) :
                                      IsWord(CharAt(s, j)) /\ BoundaryBefore(s, j)}}

\* the tokens that survive stop-word removal
SurvivingTokens(s) ==
    {SubSeq(s, w[1], w[2]) : w \in WordSpans(s)} \ STOP_WORDS

\* the canonical form of a token by the synonym table
Canonical(t) == IF t \in DOMAIN SYNONYMS THEN SYNONYMS[t] ELSE t

\* the query with every token that is a key of the synonym table replaced by
\* its canonical term
RECURSIVE FoldSynonymsFrom(_, _)
FoldSynonymsFrom(s, i) ==
    IF i > Len(s) THEN ""
    ELSE IF IsWord(CharAt(s, i))
         THEN LET e == WordEnd(s, i)
                  w == ToLowerCase(SubSeq(s, i, e))
              IN  (IF w \in DOMAIN SYNONYMS THEN SYNONYMS[w] ELSE SubSeq(s, i, e))
                    \o FoldSynonymsFrom(s, e + 1)
         ELSE CharAt(s, i) \o FoldSynonymsFrom(s, i + 1)

FoldSynonyms(s) == FoldSynonymsFrom(s, 1)

\* C14: synonym folding: for every key k of the synonym table, a query with
\* the token k yields the canonical term SYNONYMS[k] in the matching category
\* and never k itself in scenes, objects or emotions, and the query with
\* SYNONYMS[k] in the place of k produces identical scenes, objects and
\* emotions.
C14_SynonymFolding ==
    (parsed # <<>> /\ ~IsBlank(query)) =>
        LET keys == SurvivingTokens(NormalizedQuery) \cap DOMAIN SYNONYMS
            folded == parseNaturalLanguage(FoldSynonyms(query), now)
        IN  /\ \A k \in keys :
                  /\ \E c \in Categories : SYNONYMS[k] \in Dictionary(c)
                  /\ \A c \in Categories :
                        SYNONYMS[k] \in Dictionary(c) =>
                            SYNONYMS[k] \in FieldSet(parsed[1], c)
            /\ \A c \in Categories :
                  /\ FieldSet(parsed[1], c) \cap DOMAIN SYNONYMS = {}
                  /\ (c \in DOMAIN parsed[1]) = (c \in DOMAIN folded)
                  /\ c \in DOMAIN folded => parsed[1][c] = folded[c]

\* "seaside pics" gives scenes = ["beach"], as "beach pics" does
C14_Witness ==
    /\ query = "seaside pics"
    /\ FoldSynonyms(query) = "beach pics"
    /\ parsed # <<>>
    /\ parsed[1].scenes = <<"beach">>

\* C15: for every token that survives stop-word removal, the token is in
\* keywords, in its form before synonym normalization, if and only if its
\* normalized form is in none of the three dictionaries; no element of
\* keywords is a stop word, a dictionary term or a key of the synonym table.
C15_KeywordsFallback ==
    (parsed # <<>> /\ ~IsBlank(query)) =>
        LET keywords == FieldSet(parsed[1], "keywords")
        IN  /\ \A t \in SurvivingTokens(NormalizedQuery) :
                  (t \in keywords) <=> (Canonical(t) \notin AllDictionaries)
            /\ keywords \subseteq SurvivingTokens(NormalizedQuery)
            /\ keywords \cap STOP_WORDS = {}
            /\ keywords \cap AllDictionaries = {}
            /\ keywords \cap DOMAIN SYNONYMS = {}

\* a query with a stop word, a synonym, a dictionary term and another word
C15_Witness ==
    /\ parsed # <<>>
    /\ SurvivingTokens(NormalizedQuery) \cap DOMAIN SYNONYMS # {}
    /\ SurvivingTokens(NormalizedQuery) \cap AllDictionaries # {}
    /\ parsed[1].keywords # <<>>
    /\ \E w \in WordSpans(NormalizedQuery) :
          SubSeq(NormalizedQuery, w[1], w[2]) \in STOP_WORDS

\* C16: categorization is three independent membership tests: the normalized
\* form of every token is in each of scenes, objects and emotions whose
\* dictionary contains it, so a term of two dictionaries is in both output
\* categories.
C16_IndependentTests ==
    (parsed # <<>> /\ ~IsBlank(query)) =>
        \A c \in Categories :
            FieldSet(parsed[1], c) =
                {Canonical(t) : t \in SurvivingTokens(NormalizedQuery)}
                    \cap Dictionary(c)

\* a term of the scene and the object dictionary, returned in both lists
C16_Witness ==
    /\ parsed # <<>>
    /\ \E t \in SurvivingTokens(NormalizedQuery) :
          /\ t \in SCENE_KEYWORDS \cap OBJECT_KEYWORDS
          /\ t \in FieldSet(parsed[1], "scenes")
          /\ t \in FieldSet(parsed[1], "objects")

\* the terms a returned query lists in more than one category
SharedTerms(r) ==
    (FieldSet(r, "scenes") \cap FieldSet(r, "objects"))
      \cup (FieldSet(r, "scenes") \cap FieldSet(r, "emotions"))
      \cup (FieldSet(r, "objects") \cap FieldSet(r, "emotions"))

\* the terms that belong to more than one dictionary
OverlappingTerms ==
    (SCENE_KEYWORDS \cap OBJECT_KEYWORDS)
      \cup (SCENE_KEYWORDS \cap EMOTION_KEYWORDS)
      \cup (OBJECT_KEYWORDS \cap EMOTION_KEYWORDS)

\* C17 as stated: the three dictionaries are pairwise disjoint, so no term of
\* a query belongs to more than one dictionary and no term appears in more
\* than one of scenes, objects, emotions.
C17_Original ==
    (parsed # <<>> /\ ~IsBlank(query)) =>
        /\ {Canonical(t) : t \in SurvivingTokens(NormalizedQuery)}
              \cap OverlappingTerms = {}
        /\ SharedTerms(parsed[1]) = {}

\* C17 amended: the emotion dictionary is disjoint from the other two, and
\* the scene and the object dictionary share exactly the term "building";
\* for every query the only term that can appear in more than one category
\* is "building", in scenes and in objects.
C17_DisjointButBuilding ==
    /\ OverlappingTerms = {"building"}
    /\ SCENE_KEYWORDS \cap OBJECT_KEYWORDS = {"building"}
    /\ (parsed # <<>> /\ ~IsBlank(query)) =>
          /\ SharedTerms(parsed[1]) \subseteq {"building"}
          /\ FieldSet(parsed[1], "emotions")
               \cap (FieldSet(parsed[1], "scenes") \cup FieldSet(parsed[1], "objects")) = {}

\* "building" with a scene term and an emotion term that stay in one category
C17_Witness ==
    /\ parsed # <<>>
    /\ SharedTerms(parsed[1]) = {"building"}
    /\ Cardinality(FieldSet(parsed[1], "scenes")) >= 2
    /\ "emotions" \in DOMAIN parsed[1]

\* the tokens of the query in order, before stop-word removal
RECURSIVE WordsFrom(_, _)
WordsFrom(s, i) ==
    IF i > Len(s) THEN <<>>
    ELSE IF IsWord(CharAt(s, i))
         THEN <<SubSeq(s, i, WordEnd(s, i))>> \o WordsFrom(s, WordEnd(s, i) + 1)
         ELSE WordsFrom(s, i + 1)

\* the position of the first occurrence of x in a sequence that holds it
FirstIndex(seq, x) == SetMin({i \in 1..Len(seq) : seq[i] = x})

NoDuplicates(seq) == \A i, j \in 1..Len(seq) : seq[i] = seq[j] => i = j

\* C18: each of scenes, objects, emotions and keywords has no duplicate
\* element, however often a term or its synonyms are repeated, and keywords
\* lists tokens in the order of their first occurrence in the query.
C18_NoDuplicates ==
    (parsed # <<>> /\ ~IsBlank(query)) =>
        /\ \A c \in Categories \cup {"keywords"} :
              c \in DOMAIN parsed[1] => NoDuplicates(parsed[1][c])
        /\ LET words == WordsFrom(NormalizedQuery, 1)
               keywords == parsed[1].keywords
           IN  \A a, b \in 1..Len(keywords) :
                   a < b => FirstIndex(words, keywords[a]) < FirstIndex(words, keywords[b])

\* two synonyms of one term and a repeated keyword
C18_Witness ==
    /\ parsed # <<>>
    /\ Cardinality(SurvivingTokens(NormalizedQuery) \cap DOMAIN SYNONYMS) >= 2
    /\ "scenes" \in DOMAIN parsed[1]
    /\ parsed[1].scenes = <<"beach">>
    /\ Len(parsed[1].keywords) >= 2
    /\ LET words == WordsFrom(NormalizedQuery, 1)
       IN  \E i, j \in 1..Len(words) :
               i < j /\ words[i] = words[j] /\ InSeq(words[i], parsed[1].keywords)

(***************************************************************************)
(* Places: a query is put together from phrases with and without           *)
(* capitalised words after a preposition, and is parsed.                   *)
(***************************************************************************)
MaxPlaces == 3

PlacePieces ==
    {" at Seaside,", " in Paris", " in New  York", " from paris", " In Rome",
     " at USA", " beach", " McDonald"}

InitPlaces ==
    /\ query = ""
    /\ typed = 0
    /\ now = Instants[1]
    /\ parsed = <<>>
    /\ prev = <<>>
    /\ images = <<>>
    /\ input = <<>>
    /\ ranked = <<>>
    /\ QueueUnused
    /\ LibraryUnused

TypePlace(p) ==
    /\ typed < MaxPlaces
    /\ query' = query \o p
    /\ typed' = typed + 1
    /\ parsed' = <<>>
    /\ prev' = <<>>
    /\ UNCHANGED <<now, rankVars, queueVars, libraryVars>>

NextPlaces ==
    \/ \E p \in PlacePieces : TypePlace(p)
    \/ Parse

SpecPlaces == InitPlaces /\ [][NextPlaces]_vars

(***************************************************************************)
(* Properties of extractLocations, checked under SpecPlaces.               *)
(***************************************************************************)
\* a capitalised word starts at position s: an upper-case letter and a
\* lower-case letter
CapitalizedAt(q, s) ==
    s + 1 <= Len(q) /\ CharAt(q, s) \in UpperSet /\ CharAt(q, s + 1) \in LowerSet

\* position s comes after "at", "in" or "from" (lower case, at a word
\* boundary) and one or more whitespace characters
AfterPreposition(q, s) ==
    \E prep \in {"at", "in", "from"} :
        \E i \in 1..(s - 1 - Len(prep)) :
            /\ SubSeq(q, i, i + Len(prep) - 1) = prep
            /\ (i = 1 \/ CharAt(q, i - 1) \notin WordChars)
            /\ \A k \in (i + Len(prep))..(s - 1) : CharAt(q, k) \in WhiteSpace

\* where the locations of the original-case query start, in order
LocationStarts(q) ==
    {s \in 1..Len(q) : CapitalizedAt(q, s) /\ AfterPreposition(q, s)}

\* the n-th smallest element of a set of numbers
NthSmallest(S, n) == CHOOSE x \in S : Cardinality({y \in S : y < x}) = n - 1

\* p is made of capitalised words separated by whitespace
IsCapitalizedPhrase(p) ==
    /\ Len(p) >= 2
    /\ CharAt(p, Len(p)) \in LowerSet
    /\ \A i \in 1..Len(p) :
          LET c == CharAt(p, i)
          IN  /\ c \in UpperSet \cup LowerSet \cup WhiteSpace
              /\ c \in UpperSet =>
                    /\ i = 1 \/ CharAt(p, i - 1) \in WhiteSpace
                    /\ CharAt(p, i + 1) \in LowerSet
              /\ c \in LowerSet => CharAt(p, i - 1) \in UpperSet \cup LowerSet

\* the phrase that ends at position e of q cannot be extended: no lower-case
\* letter follows, and no whitespace followed by a capitalised word
PhraseIsMaximal(q, e) ==
    /\ e < Len(q) => CharAt(q, e + 1) \notin LowerSet
    /\ ~ \E k \in (e + 2)..Len(q) :
            /\ \A j \in (e + 1)..(k - 1) : CharAt(q, j) \in WhiteSpace
            /\ CapitalizedAt(q, k)

\* C19: location extraction scans the original-case query for at/in/from
\* followed by one or more consecutive capitalised words and returns the
\* capitalised phrases in order of appearance, keeping duplicates; locations
\* is absent when there is no match, and a lower-case word after the
\* preposition produces no location.
C19_Locations ==
    (parsed # <<>> /\ ~IsBlank(query)) =>
        LET starts == LocationStarts(query)
            locations == IF "locations" \in DOMAIN parsed[1]
                         THEN parsed[1].locations ELSE <<>>
        IN  /\ ("locations" \in DOMAIN parsed[1]) = (starts # {})
            /\ Len(locations) = Cardinality(starts)
            /\ \A n \in 1..Len(locations) :
                  LET s == NthSmallest(starts, n)
                      e == s + Len(locations[n]) - 1
                  IN  /\ e <= Len(query)
                      /\ SubSeq(query, s, e) = locations[n]
                      /\ IsCapitalizedPhrase(locations[n])
                      /\ PhraseIsMaximal(query, e)

\* a phrase reported twice, with a preposition followed by a lower-case word
C19_Witness ==
    /\ parsed # <<>>
    /\ "locations" \in DOMAIN parsed[1]
    /\ parsed[1].locations = <<"Paris", "Paris">>
    /\ \E i \in 1..Len(query) : StartsAt(query, i, "from paris")

(***************************************************************************)
(* The AI analysis queue (analysis-queue).  A task row is                  *)
(*   [imageId, status, retries, error, startedAt, completedAt]             *)
(* and its id is its position in `tasks`, which is its createdAt order;    *)
(* error is <<>> for null or <<message>>, startedAt and completedAt tell   *)
(* whether the column is set.  An image row is                             *)
(*   [exists, originalImage, aiAnalyzed, aiLabels, aiConfidence]           *)
(* where originalImage tells whether the image data is there, aiLabels is  *)
(* <<>> or <<labels>> and aiConfidence is <<>> or <<hundredths>>.          *)
(* Every operation is an async function: it runs from one database call   *)
(* to the next in one step, and the steps of the operations that run in    *)
(* different request slots interleave.  A call record is                  *)
(*   [op, pc, imageId, batch, i, task, result]                             *)
(* with the operation the request runs, the await it stands at, and its    *)
(* local variables: the image id, the tasks read by processPendingTasks    *)
(* and the index of the current one, the task read by markTaskFailed or    *)
(* retryFailedTask, and the confidence analyzeImage returned.              *)
(***************************************************************************)
MAX_RETRIES == 3

DefaultBatchSize == 3

MaxCalls == 4

Slots == {"a", "b"}

AiImageIds == {1, 2}

\* the confidence an analysis can return, in hundredths
AnalysisConfidences == {0, 80}

NewTask(imageId) ==
    [imageId |-> imageId, status |-> "PENDING", retries |-> 0, error |-> <<>>,
     startedAt |-> FALSE, completedAt |-> FALSE]

NewImage(originalImage) ==
    [exists |-> TRUE, originalImage |-> originalImage, aiAnalyzed |-> FALSE,
     aiLabels |-> <<>>, aiConfidence |-> <<>>]

Idle ==
    [op |-> "idle", pc |-> "idle", imageId |-> 0, batch |-> <<>>, i |-> 0,
     task |-> <<>>, result |-> 0]

\* what a findFirst or findMany hands to the code: the row as it was read
Snapshot(id) ==
    [id |-> id, imageId |-> tasks[id].imageId, retries |-> tasks[id].retries]

TasksWhere(imageId, statuses) ==
    {id \in 1..Len(tasks) :
        tasks[id].imageId = imageId /\ tasks[id].status \in statuses}

\* the call after processImageAnalysis has returned: processPendingTasks goes
\* on with the next task of its batch, a direct call is over
ProcessReturns(c) ==
    IF c.op = "processPendingTasks" /\ c.i < Len(c.batch)
    THEN [c EXCEPT !.pc = "pending.mark", !.i = c.i + 1,
                   !.imageId = c.batch[c.i + 1].imageId, !.task = <<>>,
                   !.result = 0]
    ELSE Idle

\* the call after queueImageAnalysis has returned: retryFailedTask goes on
\* with the reset of the image, a direct call is over
QueueReturns(c) ==
    IF c.op = "retryFailedTask" THEN [c EXCEPT !.pc = "retry.resetImage"] ELSE Idle

\* a request may start in a free slot; the second slot is for a request that
\* overlaps the one in the first
MayStart(s) ==
    /\ calls[s] = Idle
    /\ started < MaxCalls
    /\ s = "b" => calls["a"] # Idle

\* rows of the task table after failed attempts: none, a task that failed
\* twice, and a task that failed for the third time
TaskTables ==
    {<<>>,
     <<[NewTask(1) EXCEPT !.retries = 2, !.error = <<"error">>, !.startedAt = TRUE]>>,
     <<[NewTask(1) EXCEPT !.status = "FAILED", !.retries = MAX_RETRIES,
                          !.error = <<"error">>, !.startedAt = TRUE,
                          !.completedAt = TRUE]>>}

InitQueue ==
    /\ tasks \in TaskTables
    /\ aiImages = [id \in AiImageIds |->
                      IF id = 1 /\ TasksWhere(1, {"FAILED"}) # {}
                      THEN [NewImage(TRUE) EXCEPT !.aiAnalyzed = TRUE,
                                                  !.aiConfidence = <<0>>]
                      ELSE NewImage(id = 1)]
    /\ calls = [s \in Slots |-> Idle]
    /\ started = 0
    /\ LibraryUnused
    /\ query = ""
    /\ typed = 0
    /\ now = Instants[1]
    /\ parsed = <<>>
    /\ prev = <<>>
    /\ images = <<>>
    /\ input = <<>>
    /\ ranked = <<>>

\* queueImageAnalysis up to the answer of its first query: a task of the
\* image that is PENDING or PROCESSING ends the call
queueImageAnalysis_Call(s, imageId) ==
    /\ MayStart(s)
    /\ started' = started + 1
    /\ TasksWhere(imageId, {"PENDING", "PROCESSING"}) = {}
    /\ calls' = [calls EXCEPT ![s] =
                    [Idle EXCEPT !.op = "queueImageAnalysis",
                                 !.pc = "queue.findImage", !.imageId = imageId]]
    /\ UNCHANGED <<tasks, aiImages, searchVars, libraryVars>>

\* the same query when retryFailedTask calls queueImageAnalysis
queueImageAnalysis_FindTask(s) ==
    /\ calls[s].pc = "queue.findTask"
    /\ calls' = [calls EXCEPT ![s] =
                    IF TasksWhere(calls[s].imageId, {"PENDING", "PROCESSING"}) # {}
                    THEN QueueReturns(calls[s])
                    ELSE [calls[s] EXCEPT !.pc = "queue.findImage"]]
    /\ UNCHANGED <<tasks, aiImages, started, searchVars, libraryVars>>

\* image?.aiAnalyzed ends the call
queueImageAnalysis_FindImage(s) ==
    /\ calls[s].pc = "queue.findImage"
    /\ LET image == aiImages[calls[s].imageId]
       IN  calls' = [calls EXCEPT ![s] =
                        IF image.exists /\ image.aiAnalyzed
                        THEN QueueReturns(calls[s])
                        ELSE [calls[s] EXCEPT !.pc = "queue.create"]]
    /\ UNCHANGED <<tasks, aiImages, started, searchVars, libraryVars>>

queueImageAnalysis_Create(s) ==
    /\ calls[s].pc = "queue.create"
    /\ tasks' = Append(tasks, NewTask(calls[s].imageId))
    /\ calls' = [calls EXCEPT ![s] = QueueReturns(calls[s])]
    /\ UNCHANGED <<aiImages, started, searchVars, libraryVars>>

\* processImageAnalysis after the image was read
AfterFindImage(c) ==
    LET image == aiImages[c.imageId]
    IN  IF ~image.exists THEN ProcessReturns(c)
        ELSE IF image.aiAnalyzed THEN ProcessReturns(c)
        ELSE IF ~image.originalImage THEN [c EXCEPT !.pc = "failed.find"]
        ELSE [c EXCEPT !.pc = "process.analyze"]

\* a direct call of processImageAnalysis up to the answer of its first query
processImageAnalysis_Call(s, imageId) ==
    /\ MayStart(s)
    /\ started' = started + 1
    /\ LET c == [Idle EXCEPT !.op = "processImageAnalysis", !.imageId = imageId]
       IN  /\ AfterFindImage(c) # Idle
           /\ calls' = [calls EXCEPT ![s] = AfterFindImage(c)]
    /\ UNCHANGED <<tasks, aiImages, searchVars, libraryVars>>

\* the same query when processPendingTasks calls processImageAnalysis
processImageAnalysis_FindImage(s) ==
    /\ calls[s].pc = "process.findImage"
    /\ calls' = [calls EXCEPT ![s] = AfterFindImage(calls[s])]
    /\ UNCHANGED <<tasks, aiImages, started, searchVars, libraryVars>>

\* analyzeImage returns; a zero confidence is thrown and caught
processImageAnalysis_Analyze(s, confidence) ==
    /\ calls[s].pc = "process.analyze"
    /\ calls' = [calls EXCEPT ![s] =
                    IF confidence = 0
                    THEN [calls[s] EXCEPT !.pc = "failed.find"]
                    ELSE [calls[s] EXCEPT !.pc = "process.store",
                                          !.result = confidence]]
    /\ UNCHANGED <<tasks, aiImages, started, searchVars, libraryVars>>

\* storeAnalysisResults: the update of the image; it throws when the image
\* is gone, and the catch block marks the task failed
processImageAnalysis_Store(s) ==
    /\ calls[s].pc = "process.store"
    /\ LET c == calls[s]
       IN  IF aiImages[c.imageId].exists
           THEN /\ aiImages' = [aiImages EXCEPT ![c.imageId] =
                                   [@ EXCEPT !.aiAnalyzed = TRUE,
                                             !.aiLabels = <<"labels">>,
                                             !.aiConfidence = <<c.result>>]]
                /\ calls' = [calls EXCEPT ![s] = [c EXCEPT !.pc = "process.complete"]]
           ELSE /\ aiImages' = aiImages
                /\ calls' = [calls EXCEPT ![s] = [c EXCEPT !.pc = "failed.find"]]
    /\ UNCHANGED <<tasks, started, searchVars, libraryVars>>

\* updateMany({where: {imageId, status: 'PROCESSING'}, data: COMPLETED})
processImageAnalysis_Complete(s) ==
    /\ calls[s].pc = "process.complete"
    /\ tasks' = [id \in 1..Len(tasks) |->
                   IF id \in TasksWhere(calls[s].imageId, {"PROCESSING"})
                   THEN [tasks[id] EXCEPT !.status = "COMPLETED", !.completedAt = TRUE]
                   ELSE tasks[id]]
    /\ calls' = [calls EXCEPT ![s] = ProcessReturns(calls[s])]
    /\ UNCHANGED <<aiImages, started, searchVars, libraryVars>>

\* markTaskFailed: findFirst without an order returns any PROCESSING task of
\* the image; none ends it
markTaskFailed_Find(s) ==
    /\ calls[s].pc = "failed.find"
    /\ LET found == TasksWhere(calls[s].imageId, {"PROCESSING"})
       IN  IF found = {}
           THEN calls' = [calls EXCEPT ![s] = ProcessReturns(calls[s])]
           ELSE \E id \in found :
                   calls' = [calls EXCEPT ![s] =
                                [calls[s] EXCEPT !.pc = "failed.update",
                                                 !.task = <<Snapshot(id)>>]]
    /\ UNCHANGED <<tasks, aiImages, started, searchVars, libraryVars>>

\* markTaskFailed: the update by id, decided on the retries that were read
markTaskFailed_Update(s) ==
    /\ calls[s].pc = "failed.update"
    /\ LET task == calls[s].task[1]
       IN  IF task.retries >= MAX_RETRIES
           THEN /\ tasks' = [tasks EXCEPT ![task.id] =
                               [@ EXCEPT !.status = "FAILED", !.error = <<"error">>,
                                         !.completedAt = TRUE]]
                /\ calls' = [calls EXCEPT ![s] = [calls[s] EXCEPT !.pc = "failed.image"]]
           ELSE /\ tasks' = [tasks EXCEPT ![task.id] =
                               [@ EXCEPT !.status = "PENDING", !.error = <<"error">>]]
                /\ calls' = [calls EXCEPT ![s] = ProcessReturns(calls[s])]
    /\ UNCHANGED <<aiImages, started, searchVars, libraryVars>>

\* markTaskFailed: the image is marked analyzed with confidence 0; the update
\* throws when the image is gone, which ends the whole request
markTaskFailed_Image(s) ==
    /\ calls[s].pc = "failed.image"
    /\ LET c == calls[s]
       IN  IF aiImages[c.imageId].exists
           THEN /\ aiImages' = [aiImages EXCEPT ![c.imageId] =
                                   [@ EXCEPT !.aiAnalyzed = TRUE, !.aiConfidence = <<0>>]]
                /\ calls' = [calls EXCEPT ![s] = ProcessReturns(c)]
           ELSE /\ aiImages' = aiImages
                /\ calls' = [calls EXCEPT ![s] = Idle]
    /\ UNCHANGED <<tasks, started, searchVars, libraryVars>>

\* the first min(n, Len(ids)) elements of a set of task ids, oldest first
RECURSIVE OldestFirst(_, _)
OldestFirst(ids, n) ==
    IF ids = {} \/ n = 0 THEN <<>>
    ELSE <<Snapshot(SetMin(ids))>> \o OldestFirst(ids \ {SetMin(ids)}, n - 1)

\* processPendingTasks up to the answer of findMany; no task ends the call
processPendingTasks_Call(s, batchSize) ==
    /\ MayStart(s)
    /\ started' = started + 1
    /\ LET pending == {id \in 1..Len(tasks) :
                          /\ tasks[id].status = "PENDING"
                          /\ tasks[id].retries < MAX_RETRIES}
           batch == OldestFirst(pending, batchSize)
       IN  /\ batch # <<>>
           /\ calls' = [calls EXCEPT ![s] =
                           [Idle EXCEPT !.op = "processPendingTasks",
                                        !.pc = "pending.mark", !.batch = batch,
                                        !.i = 1, !.imageId = batch[1].imageId]]
    /\ UNCHANGED <<tasks, aiImages, searchVars, libraryVars>>

\* the update by id that marks the task as processing, with the retries that
\* were read plus one
processPendingTasks_Mark(s) ==
    /\ calls[s].pc = "pending.mark"
    /\ LET task == calls[s].batch[calls[s].i]
       IN  tasks' = [tasks EXCEPT ![task.id] =
                        [@ EXCEPT !.status = "PROCESSING", !.startedAt = TRUE,
                                  !.retries = task.retries + 1]]
    /\ calls' = [calls EXCEPT ![s] = [calls[s] EXCEPT !.pc = "process.findImage"]]
    /\ UNCHANGED <<aiImages, started, searchVars, libraryVars>>

\* retryFailedTask up to the answer of its findFirst: a FAILED task of the
\* image is reset, and without one queueImageAnalysis is called
retryFailedTask_Call(s, imageId) ==
    /\ MayStart(s)
    /\ started' = started + 1
    /\ LET found == TasksWhere(imageId, {"FAILED"})
           c == [Idle EXCEPT !.op = "retryFailedTask", !.imageId = imageId]
       IN  IF found = {}
           THEN calls' = [calls EXCEPT ![s] = [c EXCEPT !.pc = "queue.findTask"]]
           ELSE \E id \in found :
                   calls' = [calls EXCEPT ![s] =
                                [c EXCEPT !.pc = "retry.reset",
                                          !.task = <<Snapshot(id)>>]]
    /\ UNCHANGED <<tasks, aiImages, searchVars, libraryVars>>

\* the update by id that resets the task
retryFailedTask_Reset(s) ==
    /\ calls[s].pc = "retry.reset"
    /\ tasks' = [tasks EXCEPT ![calls[s].task[1].id] =
                    [@ EXCEPT !.status = "PENDING", !.retries = 0, !.error = <<>>,
                              !.startedAt = FALSE, !.completedAt = FALSE]]
    /\ calls' = [calls EXCEPT ![s] = [calls[s] EXCEPT !.pc = "retry.resetImage"]]
    /\ UNCHANGED <<aiImages, started, searchVars, libraryVars>>

\* the reset of the AI columns of the image
retryFailedTask_ResetImage(s) ==
    /\ calls[s].pc = "retry.resetImage"
    /\ aiImages' = [aiImages EXCEPT ![calls[s].imageId] =
                       IF @.exists
                       THEN [@ EXCEPT !.aiAnalyzed = FALSE, !.aiLabels = <<>>,
                                      !.aiConfidence = <<>>]
                       ELSE @]
    /\ calls' = [calls EXCEPT ![s] = Idle]
    /\ UNCHANGED <<tasks, started, searchVars, libraryVars>>

NextQueue ==
    \E s \in Slots :
        \/ \E imageId \in AiImageIds : queueImageAnalysis_Call(s, imageId)
        \/ queueImageAnalysis_FindTask(s)
        \/ queueImageAnalysis_FindImage(s)
        \/ queueImageAnalysis_Create(s)
        \/ \E imageId \in AiImageIds : processImageAnalysis_Call(s, imageId)
        \/ processImageAnalysis_FindImage(s)
        \/ \E confidence \in AnalysisConfidences :
              processImageAnalysis_Analyze(s, confidence)
        \/ processImageAnalysis_Store(s)
        \/ processImageAnalysis_Complete(s)
        \/ markTaskFailed_Find(s)
        \/ markTaskFailed_Update(s)
        \/ markTaskFailed_Image(s)
        \/ \E batchSize \in {1, DefaultBatchSize} : processPendingTasks_Call(s, batchSize)
        \/ processPendingTasks_Mark(s)
        \/ \E imageId \in AiImageIds : retryFailedTask_Call(s, imageId)
        \/ retryFailedTask_Reset(s)
        \/ retryFailedTask_ResetImage(s)

SpecQueue == InitQueue /\ [][NextQueue]_vars

(***************************************************************************)
(* Properties of the AI analysis queue, checked under SpecQueue.           *)
(***************************************************************************)
\* the changes of status the claim allows for one task in one step
AllowedTransition(old, new) ==
    \/ new.status = old.status
    \/ old.status = "PENDING" /\ new.status = "PROCESSING"
    \/ old.status = "PROCESSING" /\ new.status = "COMPLETED"
    \/ old.status = "PROCESSING" /\ new.status = "PENDING"
         /\ old.retries < MAX_RETRIES
    \/ old.status = "PROCESSING" /\ new.status = "FAILED"
         /\ old.retries = MAX_RETRIES
    \/ old.status = "FAILED" /\ new.status = "PENDING"

\* C20: a task is created as PENDING and changes status only from PENDING to
\* PROCESSING, from PROCESSING to COMPLETED, from PROCESSING to PENDING with
\* retries below MAX_RETRIES, from PROCESSING to FAILED with retries at
\* MAX_RETRIES, and from FAILED to PENDING; COMPLETED is terminal.
C20_TaskTransitions ==
    [][/\ Len(tasks') >= Len(tasks)
       /\ \A id \in 1..Len(tasks) : AllowedTransition(tasks[id], tasks'[id])
       /\ \A id \in (Len(tasks) + 1)..Len(tasks') : tasks'[id].status = "PENDING"]_vars

\* a task that was COMPLETED, on which no attempt ever failed, is marked as
\* processing again by an invocation of processPendingTasks that had read it
\* while it was PENDING
C20_Witness ==
    \E id \in 1..Len(tasks) :
        /\ tasks[id].status = "PROCESSING"
        /\ tasks[id].completedAt
        /\ tasks[id].error = <<>>

(***************************************************************************)
(* The queue with its scheduler: the requests run one after the other, in  *)
(* the first slot, processPendingTasks is called again and again (by a     *)
(* cron job or an API route) whatever the number of requests that were     *)
(* started, and every call that was started goes on to its end.            *)
(***************************************************************************)
\* processPendingTasks called by the scheduler
processPendingTasks_Scheduled(s, batchSize) ==
    /\ calls[s] = Idle
    /\ s = "b" => calls["a"] # Idle
    /\ LET pending == {id \in 1..Len(tasks) :
                          /\ tasks[id].status = "PENDING"
                          /\ tasks[id].retries < MAX_RETRIES}
           batch == OldestFirst(pending, batchSize)
       IN  /\ batch # <<>>
           /\ calls' = [calls EXCEPT ![s] =
                           [Idle EXCEPT !.op = "processPendingTasks",
                                        !.pc = "pending.mark", !.batch = batch,
                                        !.i = 1, !.imageId = batch[1].imageId]]
    /\ UNCHANGED <<tasks, aiImages, started, searchVars, libraryVars>>

\* the next step of the call that runs in a slot
Proceed(s) ==
    \/ queueImageAnalysis_FindTask(s)
    \/ queueImageAnalysis_FindImage(s)
    \/ queueImageAnalysis_Create(s)
    \/ processImageAnalysis_FindImage(s)
    \/ \E confidence \in AnalysisConfidences :
          processImageAnalysis_Analyze(s, confidence)
    \/ processImageAnalysis_Store(s)
    \/ processImageAnalysis_Complete(s)
    \/ markTaskFailed_Find(s)
    \/ markTaskFailed_Update(s)
    \/ markTaskFailed_Image(s)
    \/ processPendingTasks_Mark(s)
    \/ retryFailedTask_Reset(s)
    \/ retryFailedTask_ResetImage(s)

Schedule ==
    \E batchSize \in {1, DefaultBatchSize} : processPendingTasks_Scheduled("a", batchSize)

NextScheduled ==
    \/ \E imageId \in AiImageIds : queueImageAnalysis_Call("a", imageId)
    \/ \E imageId \in AiImageIds : processImageAnalysis_Call("a", imageId)
    \/ \E imageId \in AiImageIds : retryFailedTask_Call("a", imageId)
    \/ Proceed("a")
    \/ Schedule

SpecScheduled ==
    /\ InitQueue
    /\ [][NextScheduled]_vars
    /\ WF_vars(Proceed("a"))
    /\ WF_vars(Schedule)

\* C21: every task eventually reaches COMPLETED or FAILED, provided
\* processPendingTasks keeps being invoked and every analysis call returns.
C21_TaskTerminates ==
    \A id \in 1..(MaxCalls + 1) :
        [](id <= Len(tasks) =>
              <>(id <= Len(tasks) /\ tasks[id].status \in {"COMPLETED", "FAILED"}))

\* no call runs, and a task is PROCESSING although its image carries a
\* successful analysis: no operation will change the task
C21_Witness ==
    /\ \A s \in Slots : calls[s] = Idle
    /\ \E id \in 1..Len(tasks) :
          /\ tasks[id].status = "PROCESSING"
          /\ aiImages[tasks[id].imageId].aiAnalyzed
          /\ aiImages[tasks[id].imageId].aiConfidence = <<80>>

\* the task of an image that was created last
LatestTask(imageId) ==
    CHOOSE id \in 1..Len(tasks) :
        /\ tasks[id].imageId = imageId
        /\ \A other \in 1..Len(tasks) : tasks[other].imageId = imageId => other <= id

HasTask(imageId) == TasksWhere(imageId, {"PENDING", "PROCESSING", "COMPLETED", "FAILED"}) # {}

\* C22: when processImageAnalysis has stored a successful result for an image
\* and marks the tasks completed, the latest task of the image is COMPLETED
\* with completedAt set, also when it is called directly after
\* queueImageAnalysis.
C22_StoredMeansCompleted ==
    [][\A s \in Slots :
          (/\ calls[s].pc = "process.complete"
           /\ calls'[s].pc # "process.complete"
           /\ HasTask(calls[s].imageId))
          => /\ tasks'[LatestTask(calls[s].imageId)].status = "COMPLETED"
             /\ tasks'[LatestTask(calls[s].imageId)].completedAt]_vars

\* no call runs, an image carries a successful analysis and its only task,
\* which was never started, is PENDING
C22_Witness ==
    /\ \A s \in Slots : calls[s] = Idle
    /\ \E imageId \in AiImageIds :
          /\ aiImages[imageId].aiAnalyzed
          /\ aiImages[imageId].aiConfidence = <<80>>
          /\ HasTask(imageId)
          /\ tasks[LatestTask(imageId)].status = "PENDING"
          /\ ~tasks[LatestTask(imageId)].startedAt

\* C23: every failed analysis attempt is recorded on the task of the image:
\* markTaskFailed finds the task, sets its error and makes it PENDING when
\* its retries are below MAX_RETRIES and FAILED otherwise, and a FAILED task
\* comes with the image marked aiAnalyzed with aiConfidence 0; for attempts
\* started by processPendingTasks and by a direct processImageAnalysis call.
C23_FailureRecorded ==
    [][\A s \in Slots :
          /\ (calls[s].pc = "failed.find" /\ calls'[s] # calls[s]
                 /\ HasTask(calls[s].imageId))
             => calls'[s].pc = "failed.update"
          /\ (calls[s].pc = "failed.update" /\ calls'[s] # calls[s])
             => LET id == calls[s].task[1].id
                IN  /\ tasks'[id].error # <<>>
                    /\ tasks'[id].status =
                          IF tasks[id].retries < MAX_RETRIES THEN "PENDING" ELSE "FAILED"
          /\ (calls[s].pc = "failed.image" /\ calls'[s] # calls[s])
             => /\ aiImages'[calls[s].imageId].aiAnalyzed
                /\ aiImages'[calls[s].imageId].aiConfidence = <<0>>]_vars

\* a direct processImageAnalysis call has failed and enters markTaskFailed
\* while the only task of the image is PENDING without an error
C23_Witness ==
    \E s \in Slots :
        /\ calls[s].op = "processImageAnalysis"
        /\ calls[s].pc = "failed.find"
        /\ TasksWhere(calls[s].imageId, {"PROCESSING", "COMPLETED", "FAILED"}) = {}
        /\ \E id \in TasksWhere(calls[s].imageId, {"PENDING"}) : tasks[id].error = <<>>

\* the tasks processPendingTasks may select
Eligible ==
    {id \in 1..Len(tasks) :
        tasks[id].status = "PENDING" /\ tasks[id].retries < MAX_RETRIES}

RetriesInRange ==
    \A id \in 1..Len(tasks) : tasks[id].retries \in 0..MAX_RETRIES

\* a batch holds the n oldest eligible tasks, oldest first, as they are
BatchIsOldest(batch, n) ==
    /\ Len(batch) = IF n < Cardinality(Eligible) THEN n ELSE Cardinality(Eligible)
    /\ \A k \in 1..Len(batch) :
          /\ batch[k].id \in Eligible
          /\ batch[k].retries = tasks[batch[k].id].retries
          /\ Cardinality({id \in Eligible : id < batch[k].id}) = k - 1

SelectsOldestEligible ==
    \A s \in Slots :
        (calls[s] = Idle /\ calls'[s].op = "processPendingTasks")
        => \E batchSize \in {1, DefaultBatchSize} : BatchIsOldest(calls'[s].batch, batchSize)

FailedOnlyAtMaxRetries ==
    \A id \in 1..Len(tasks) :
        (tasks[id].status # "FAILED" /\ tasks'[id].status = "FAILED")
        => tasks'[id].retries = MAX_RETRIES

\* C24: each task has 0 <= retries <= MAX_RETRIES; processPendingTasks
\* selects only PENDING tasks with retries < MAX_RETRIES, oldest first and at
\* most batchSize of them; a task is marked FAILED only when its retries
\* equal MAX_RETRIES.
C24_Retries ==
    [][/\ RetriesInRange
       /\ RetriesInRange'
       /\ SelectsOldestEligible
       /\ FailedOnlyAtMaxRetries]_vars

\* a task is FAILED with fewer than MAX_RETRIES retries: markTaskFailed read
\* it before retryFailedTask reset it, and wrote FAILED afterwards
C24_Witness ==
    \E id \in 1..Len(tasks) :
        /\ tasks[id].status = "FAILED"
        /\ tasks[id].retries < MAX_RETRIES

ActiveTasks(imageId) == TasksWhere(imageId, {"PENDING", "PROCESSING"})

\* C25: for every image at most one task is PENDING or PROCESSING, under any
\* interleaving of queueImageAnalysis and retryFailedTask calls, and
\* queueImageAnalysis creates no task for an image that is aiAnalyzed.
C25_OneActiveTask ==
    [][/\ \A imageId \in AiImageIds : Cardinality(ActiveTasks(imageId))' <= 1
       /\ Len(tasks') > Len(tasks)
          => ~aiImages[tasks'[Len(tasks')].imageId].aiAnalyzed]_vars

\* two tasks of one image are PENDING, created by two overlapping calls of
\* queueImageAnalysis
C25_Witness ==
    \E imageId \in AiImageIds :
        \E id \in ActiveTasks(imageId) : \E other \in ActiveTasks(imageId) :
            /\ id # other
            /\ tasks[id] = NewTask(imageId)
            /\ tasks[other] = NewTask(imageId)

\* C26: when retryFailedTask returns, the image has aiAnalyzed false with
\* aiLabels and aiConfidence cleared and a task of the image is PENDING or
\* PROCESSING; when a FAILED task was found it is that task, reset with
\* retries 0 and error, startedAt and completedAt cleared unless it was
\* started again since.
C26_RetryRequeues ==
    [][\A s \in Slots :
          (calls[s].pc = "retry.resetImage" /\ calls'[s] = Idle)
          => /\ ~aiImages'[calls[s].imageId].aiAnalyzed
             /\ aiImages'[calls[s].imageId].aiLabels = <<>>
             /\ aiImages'[calls[s].imageId].aiConfidence = <<>>
             /\ \E id \in 1..Len(tasks') :
                   /\ tasks'[id].imageId = calls[s].imageId
                   /\ tasks'[id].status \in {"PENDING", "PROCESSING"}
             /\ calls[s].task # <<>>
                => \/ tasks'[calls[s].task[1].id] = NewTask(calls[s].imageId)
                   \/ tasks'[calls[s].task[1].id].status = "PROCESSING"]_vars

\* retryFailedTask is about to return for an image that carries a successful
\* analysis and has a COMPLETED task and no other
C26_Witness ==
    \E s \in Slots :
        /\ calls[s].pc = "retry.resetImage"
        /\ aiImages[calls[s].imageId].aiConfidence = <<80>>
        /\ TasksWhere(calls[s].imageId, {"COMPLETED"}) # {}
        /\ TasksWhere(calls[s].imageId, {"PENDING", "PROCESSING", "FAILED"}) = {}

\* the task an invocation of processPendingTasks has marked and is analyzing
Analyzing(s) ==
    IF /\ calls[s].op = "processPendingTasks"
       /\ calls[s].pc \in {"process.findImage", "process.analyze", "process.store",
                           "process.complete", "failed.find", "failed.update",
                           "failed.image"}
    THEN {calls[s].batch[calls[s].i].id}
    ELSE {}

NoSharedTask == Analyzing("a") \cap Analyzing("b") = {}

\* C27: no task is selected and analyzed by two overlapping invocations of
\* processPendingTasks, and each attempt increases the retries of the task
\* by exactly one.
C27_NoDoubleProcessing ==
    [][/\ NoSharedTask'
       /\ \A s \in Slots :
             (calls[s].pc = "pending.mark" /\ calls'[s].pc = "process.findImage")
             => tasks'[calls[s].batch[calls[s].i].id].retries
                   = tasks[calls[s].batch[calls[s].i].id].retries + 1]_vars

\* two invocations of processPendingTasks wait for the analysis of the same
\* task, whose retries were increased once
C27_Witness ==
    /\ calls["a"].pc = "process.analyze"
    /\ calls["b"].pc = "process.analyze"
    /\ Analyzing("a") # {}
    /\ Analyzing("a") = Analyzing("b")
    /\ \E id \in Analyzing("a") : tasks[id].retries = 1

(***************************************************************************)
(* The trash: soft delete, restore and permanent delete of the rows of the *)
(* image table, and the endpoints that list images.  The rows carry, next  *)
(* to the columns of the search route, filename, latitude, longitude and   *)
(* isFavorite.  `response` holds the endpoint that answered last, the      *)
(* session user it answered to and the set of rows it returned (no row is  *)
(* cut off by the default limit of 20 rows).                               *)
(***************************************************************************)
Users == {"u1", "u2"}

LibraryRow(row, located, isFavorite) ==
    row @@ [filename |-> "file" \o row.originalName,
            latitude |-> IF located THEN <<48>> ELSE <<>>,
            longitude |-> IF located THEN <<2>> ELSE <<>>,
            isFavorite |-> isFavorite]

PoolRow(id) == CHOOSE row \in ImagePool : row.id = id

\* two images of the session user, one of another user and one of the
\* session user that is in the trash
TrashTable ==
    <<LibraryRow(PoolRow(1), TRUE, TRUE), LibraryRow(PoolRow(4), FALSE, FALSE),
      LibraryRow(PoolRow(6), TRUE, FALSE), LibraryRow(PoolRow(7), TRUE, FALSE)>>

InitTrash ==
    /\ query = "beach photos"
    /\ typed = 0
    /\ now = Instants[1]
    /\ parsed = <<>>
    /\ prev = <<>>
    /\ images = TrashTable
    /\ input = <<>>
    /\ ranked = <<>>
    /\ QueueUnused
    /\ response = <<>>
    /\ tagTable = <<>>

\* prisma.image.findUnique({where: {id, userId}})
OwnRows(user, id) ==
    {k \in 1..Len(images) : images[k].id = id /\ images[k].userId = user}

ImageIds == {images[k].id : k \in 1..Len(images)}

\* DELETE /api/images/[id]: the image moves to the trash
softDelete(user, id) ==
    /\ OwnRows(user, id) # {}
    /\ images' = [k \in 1..Len(images) |->
                    IF images[k].id = id
                    THEN [images[k] EXCEPT !.deletedAt = <<now>>]
                    ELSE images[k]]
    /\ UNCHANGED <<query, typed, now, parsed, prev, input, ranked, queueVars,
                   libraryVars>>

\* POST /api/images/[id]/restore: only an image of the trash is restored
restore(user, id) ==
    /\ \E k \in OwnRows(user, id) : images[k].deletedAt # <<>>
    /\ images' = [k \in 1..Len(images) |->
                    IF images[k].id = id
                    THEN [images[k] EXCEPT !.deletedAt = <<>>]
                    ELSE images[k]]
    /\ UNCHANGED <<query, typed, now, parsed, prev, input, ranked, queueVars,
                   libraryVars>>

\* DELETE /api/images/[id]/permanent: only an image of the trash is deleted
permanentDelete(user, id) ==
    /\ \E k \in OwnRows(user, id) : images[k].deletedAt # <<>>
    /\ images' = SelectSeq(images, LAMBDA img : img.id # id)
    /\ UNCHANGED <<query, typed, now, parsed, prev, input, ranked, queueVars,
                   libraryVars>>

\* DELETE /api/trash: deleteMany on the images of the user that are in the
\* trash
emptyTrash(user) ==
    /\ \E k \in 1..Len(images) : images[k].userId = user /\ images[k].deletedAt # <<>>
    /\ images' = SelectSeq(images,
                           LAMBDA img : ~(img.userId = user /\ img.deletedAt # <<>>))
    /\ UNCHANGED <<query, typed, now, parsed, prev, input, ranked, queueVars,
                   libraryVars>>

Response(endpoint, user, rows) ==
    <<[endpoint |-> endpoint, user |-> user, rows |-> rows]>>

\* GET /api/images: where = {userId, deletedAt: null}, and isFavorite: true
\* when the favorites are asked for
listImages(user, favorite) ==
    /\ response' = Response("images", user,
                           {images[k] : k \in {k \in 1..Len(images) :
                               /\ images[k].userId = user
                               /\ images[k].deletedAt = <<>>
                               /\ favorite => images[k].isFavorite}})
    /\ UNCHANGED <<searchVars, queueVars, tagTable>>

\* the OR of the keyword: originalName, filename, title, description or the
\* name of a tag contains it
KeywordHolds(img, keyword) ==
    \/ Includes(img.originalName, keyword)
    \/ Includes(img.filename, keyword)
    \/ img.title # <<>> /\ Includes(img.title[1], keyword)
    \/ img.description # <<>> /\ Includes(img.description[1], keyword)
    \/ \E i \in 1..Len(img.tags) : Includes(img.tags[i].name, keyword)

\* GET /api/search: where = {userId} and the filters; hasLocation = 'false'
\* assigns where.OR and so replaces the OR of the keyword
advancedSearch(user, keyword, hasLocation) ==
    /\ response' = Response("search", user,
                           {images[k] : k \in {k \in 1..Len(images) :
                               /\ images[k].userId = user
                               /\ (keyword # "" /\ hasLocation # "false")
                                     => KeywordHolds(images[k], keyword)
                               /\ hasLocation = "true"
                                     => images[k].latitude # <<>> /\ images[k].longitude # <<>>
                               /\ hasLocation = "false"
                                     => images[k].latitude = <<>> \/ images[k].longitude = <<>>}})
    /\ UNCHANGED <<searchVars, queueVars, tagTable>>

\* GET /api/images/locations: the images with GPS information
mapLocations(user) ==
    /\ response' = Response("locations", user,
                           {images[k] : k \in {k \in 1..Len(images) :
                               /\ images[k].userId = user
                               /\ images[k].deletedAt = <<>>
                               /\ images[k].latitude # <<>>
                               /\ images[k].longitude # <<>>}})
    /\ UNCHANGED <<searchVars, queueVars, tagTable>>

\* GET /api/trash: the images of the trash
listTrash(user) ==
    /\ response' = Response("trash", user,
                           {images[k] : k \in {k \in 1..Len(images) :
                               images[k].userId = user /\ images[k].deletedAt # <<>>}})
    /\ UNCHANGED <<searchVars, queueVars, tagTable>>

NextTrash ==
    \/ \E user \in Users : \E id \in ImageIds : softDelete(user, id)
    \/ \E user \in Users : \E id \in ImageIds : restore(user, id)
    \/ \E user \in Users : \E id \in ImageIds : permanentDelete(user, id)
    \/ \E user \in Users : emptyTrash(user)
    \/ \E user \in Users : \E favorite \in BOOLEAN : listImages(user, favorite)
    \/ \E user \in Users : \E keyword \in {"", "IMG"} :
          \E hasLocation \in {"", "true", "false"} :
              advancedSearch(user, keyword, hasLocation)
    \/ \E user \in Users : mapLocations(user)
    \/ \E user \in Users : listTrash(user)
    \/ GET

SpecTrash == InitTrash /\ [][NextTrash]_vars

\* C28: an image whose deletedAt is set is returned by none of the gallery
\* list, the natural-language search, the advanced search and the map, and
\* only by the trash listing; every returned image belongs to the session
\* user.
C28_SoftDeleteIsolation ==
    /\ response # <<>> =>
          \A row \in response[1].rows :
              /\ row.userId = response[1].user
              /\ row.deletedAt # <<>> <=> response[1].endpoint = "trash"
    /\ ranked # <<>> =>
          \A k \in 1..Len(ranked[1]) :
              /\ ranked[1][k].userId = SessionUser
              /\ ranked[1][k].deletedAt = <<>>

\* the advanced search has returned an image that was moved to the trash
\* by a soft delete
C28_Witness ==
    /\ response # <<>>
    /\ response[1].endpoint = "search"
    /\ \E row \in response[1].rows : row.deletedAt = <<now>>

(***************************************************************************)
(* Tags.  The tag table is `tagTable`, a function from the unique name of  *)
(* a tag to <<>> (no such tag) or <<[type, useCount]>>; the rows of the    *)
(* imageTag table are the `tags` of the image rows, so deleting an image   *)
(* row deletes its associations, as the permanent-delete handler says of   *)
(* Prisma's cascade.  A tag created without a useCount starts at 0.        *)
(***************************************************************************)
TagPool == {"beach", "Canon"}

MaxUseCount == 3

HasTag(img, name) == \E i \in 1..Len(img.tags) : img.tags[i].name = name

\* prisma.imageTag.findUnique({where: {imageId_tagId}})
Linked(imgs, id, name) ==
    \E k \in 1..Len(imgs) : imgs[k].id = id /\ HasTag(imgs[k], name)

\* prisma.imageTag.create({data: {imageId, tagId}})
Link(imgs, table, id, name) ==
    [k \in 1..Len(imgs) |->
        IF imgs[k].id = id
        THEN [imgs[k] EXCEPT !.tags =
                 Append(@, [name |-> name, type |-> table[name][1].type])]
        ELSE imgs[k]]

\* prisma.imageTag.delete({where: {imageId_tagId}})
Unlink(imgs, id, name) ==
    [k \in 1..Len(imgs) |->
        IF imgs[k].id = id
        THEN [imgs[k] EXCEPT !.tags = SelectSeq(@, LAMBDA t : t.name # name)]
        ELSE imgs[k]]

\* prisma.tag.findUnique({where: {name}}), and prisma.tag.create when there
\* is none
FindOrCreate(table, name, type) ==
    IF table[name] = <<>>
    THEN [table EXCEPT ![name] = <<[type |-> type, useCount |-> 0]>>]
    ELSE table

\* prisma.tag.update({data: {useCount: {increment: by}}})
Increment(table, name, by) ==
    [table EXCEPT ![name] = <<[@[1] EXCEPT !.useCount = @ + by]>>]

\* Array.from(new Set(tagNames))
RECURSIVE UniqueNames(_)
UniqueNames(names) ==
    IF names = <<>> THEN <<>>
    ELSE PushUnique(UniqueNames(SubSeq(names, 1, Len(names) - 1)),
                    names[Len(names)])

\* two images of the session user tagged "beach", the second in the trash
TagsTable == <<LibraryRow(PoolRow(1), TRUE, TRUE), LibraryRow(PoolRow(7), TRUE, FALSE)>>

InitTags ==
    /\ query = "beach photos"
    /\ typed = 0
    /\ now = Instants[1]
    /\ parsed = <<>>
    /\ prev = <<>>
    /\ images = TagsTable
    /\ input = <<>>
    /\ ranked = <<>>
    /\ QueueUnused
    /\ response = <<>>
    /\ tagTable = [name \in TagPool |->
                      IF name = "beach"
                      THEN <<[type |-> "CUSTOM", useCount |-> 2]>>
                      ELSE <<>>]

\* the useCount of every one of the names can still grow by one
MayGrow(names) ==
    \A i \in 1..Len(names) :
        tagTable[names[i]] # <<>> => tagTable[names[i]][1].useCount < MaxUseCount

\* POST /api/images/[id]/tags with a tagId (the tag must exist) or a name
\* (the tag is found or created as CUSTOM)
attachTag(user, id, name, byTagId) ==
    /\ OwnRows(user, id) # {}
    /\ byTagId => tagTable[name] # <<>>
    /\ MayGrow(<<name>>)
    /\ LET tag == FindOrCreate(tagTable, name, "CUSTOM")
       IN  IF Linked(images, id, name)
           THEN /\ images' = images
                /\ tagTable' = tag
           ELSE /\ images' = Link(images, tag, id, name)
                /\ tagTable' = Increment(tag, name, 1)
    /\ UNCHANGED <<query, typed, now, parsed, prev, input, ranked, queueVars,
                   response>>

\* DELETE /api/images/[id]/tags: the association must exist
detachTag(user, id, name) ==
    /\ OwnRows(user, id) # {}
    /\ Linked(images, id, name)
    /\ images' = Unlink(images, id, name)
    /\ tagTable' = Increment(tagTable, name, -1)
    /\ UNCHANGED <<query, typed, now, parsed, prev, input, ranked, queueVars,
                   response>>

\* one iteration of the loop of saveAutoTags on st = [images, tagTable]
saveAutoTag(st, imageId, tag) ==
    LET table == FindOrCreate(st.tagTable, tag.name, tag.type)
    IN  IF Linked(st.images, imageId, tag.name)
        THEN [images |-> st.images, tagTable |-> table]
        ELSE [images |-> Link(st.images, table, imageId, tag.name),
              tagTable |-> Increment(table, tag.name, 1)]

RECURSIVE saveAutoTags(_, _, _)
saveAutoTags(st, imageId, names) ==
    IF names = <<>> THEN st
    ELSE saveAutoTags(saveAutoTag(st, imageId,
                                  [name |-> names[1], type |-> "AUTO_EXIF"]),
                      imageId, SubSeq(names, 2, Len(names)))

UploadId == 8

\* POST /api/images/upload: the image row is created and its EXIF tags are
\* saved
upload(user, names) ==
    /\ UploadId \notin ImageIds
    /\ MayGrow(names)
    /\ LET row == LibraryRow(Row(UploadId, user, <<>>, "new.jpg", <<>>, <<>>,
                                 <<>>, <<>>, <<>>, <<>>, <<>>), FALSE, FALSE)
           st == saveAutoTags([images |-> Append(images, row),
                               tagTable |-> tagTable],
                              UploadId, UniqueNames(names))
       IN  /\ images' = st.images
           /\ tagTable' = st.tagTable
    /\ UNCHANGED <<query, typed, now, parsed, prev, input, ranked, queueVars,
                   response>>

\* one iteration of the loop of createAITags: the association is upserted
\* and the useCount is incremented
createAITag(st, imageId, name) ==
    LET table == FindOrCreate(st.tagTable, name, "AUTO_AI")
    IN  [images |-> IF Linked(st.images, imageId, name)
                    THEN st.images
                    ELSE Link(st.images, table, imageId, name),
         tagTable |-> Increment(table, name, 1)]

RECURSIVE createAITagsFrom(_, _, _)
createAITagsFrom(st, imageId, names) ==
    IF names = <<>> THEN st
    ELSE createAITagsFrom(createAITag(st, imageId, names[1]), imageId,
                          SubSeq(names, 2, Len(names)))

\* createAITags, called by storeAnalysisResults for an image of the user
\* that processImageAnalysis found
createAITags(imageId, userId, tagNames) ==
    /\ OwnRows(userId, imageId) # {}
    /\ MayGrow(tagNames)
    /\ LET st == createAITagsFrom([images |-> images, tagTable |-> tagTable],
                                  imageId, UniqueNames(tagNames))
       IN  /\ images' = st.images
           /\ tagTable' = st.tagTable
    /\ UNCHANGED <<query, typed, now, parsed, prev, input, ranked, queueVars,
                   response>>

NextTags ==
    \/ \E user \in Users : \E id \in ImageIds : \E name \in TagPool :
          \E byTagId \in BOOLEAN : attachTag(user, id, name, byTagId)
    \/ \E user \in Users : \E id \in ImageIds : \E name \in TagPool :
          detachTag(user, id, name)
    \/ \E names \in {<<>>, <<"Canon">>, <<"Canon", "Canon">>} :
          upload(SessionUser, names)
    \/ \E id \in ImageIds :
          \E tagNames \in {<<"beach">>, <<"Canon", "beach", "Canon">>} :
              createAITags(id, SessionUser, tagNames)
    \/ \E id \in ImageIds : softDelete(SessionUser, id)
    \/ \E id \in ImageIds : permanentDelete(SessionUser, id)
    \/ emptyTrash(SessionUser)

SpecTags == InitTags /\ [][NextTags]_vars

Associations(name) ==
    Cardinality({k \in 1..Len(images) : HasTag(images[k], name)})

\* C29: the useCount of every tag is the number of its image-tag
\* associations, and is never negative, whatever tags were attached,
\* detached, saved at upload or created by the analysis and whatever images
\* were permanently deleted.
C29_UseCountIsAssociations ==
    \A name \in TagPool :
        tagTable[name] # <<>> =>
            /\ tagTable[name][1].useCount = Associations(name)
            /\ tagTable[name][1].useCount >= 0

\* the analysis tagged an image that already carried the tag: one
\* association more than the two of the start would make three, and the
\* useCount is three with two associations
C29_Witness ==
    /\ tagTable["beach"] # <<>>
    /\ tagTable["beach"][1].useCount = 3
    /\ Associations("beach") = 2
    /\ Len(images) = 2
    /\ \A k \in 1..Len(images) : images[k].deletedAt # <<>> <=> images[k].id = 7

(***************************************************************************)
(* Queries that mix dates, places and other words: the search box of       *)
(* SpecParse with pieces that hold a year, a month, the relative phrases   *)
(* and capitalized places.                                                 *)
(***************************************************************************)
TokenPieces ==
    {" from 2023", " in december", " last week", " last month", " last year",
     " today", " in Paris", " beach"}

NextTokens ==
    \/ \E p \in TokenPieces : Type(p)
    \/ Parse

SpecTokens == InitParse /\ [][NextTokens]_vars

\* the words of the lowercased query: its maximal runs of word characters
QueryWords ==
    SelectSeq(SplitSpaces(ReplaceNonWord(ToLowerCase(query))),
              LAMBDA word : Len(word) > 0)

\* the token, with its synonym applied, is in one of the categories of the
\* parsed query
Categorized(p, token) ==
    \E f \in {"scenes", "objects", "emotions"} \cap DOMAIN p :
        InSeq(NormalizeToken(token), p[f])

\* the number of scenes, objects and emotions of the parsed query
CategorizedCount(p) ==
    (IF "scenes" \in DOMAIN p THEN Len(p.scenes) ELSE 0)
    + (IF "objects" \in DOMAIN p THEN Len(p.objects) ELSE 0)
    + (IF "emotions" \in DOMAIN p THEN Len(p.emotions) ELSE 0)

\* C30: date and location extraction do not consume query text: every word
\* of the lowercased query that is not a stop word -- the digits of a year,
\* the words of a relative phrase, a month name, the lowercased words of a
\* location -- is categorized or is in keywords, and the keywords count
\* five hundredths each, up to fifteen, in the confidence.
C30_ExtractionKeepsTokens ==
    (parsed # <<>> /\ Len(Trim(query)) > 0) =>
        LET p == parsed[1]
        IN  /\ \A i \in 1..Len(QueryWords) :
                  QueryWords[i] \notin STOP_WORDS =>
                      Categorized(p, QueryWords[i]) \/ InSeq(QueryWords[i], p.keywords)
            /\ \A i \in 1..Len(p.keywords) : InSeq(p.keywords[i], QueryWords)
            /\ p.confidence = Min(30 + Min(Len(p.keywords) * 5, 15)
                                     + CategorizedCount(p) * 15
                                     + (IF "dates" \in DOMAIN p THEN 10 ELSE 0)
                                     + (IF "locations" \in DOMAIN p THEN 10 ELSE 0),
                                  95)

\* a year and a place were extracted from "from 2023 in Paris last week", and
\* "2023", "paris", "last" and "week" are keywords
C30_Witness ==
    /\ parsed # <<>>
    /\ query = " from 2023 in Paris last week"
    /\ "dates" \in DOMAIN parsed[1]
    /\ "locations" \in DOMAIN parsed[1]
    /\ parsed[1].keywords = <<"2023", "paris", "last", "week">>

=============================================================================
